---- MODULE Spec2Model ----
(***************************************************************************)
(* MicroSQL (src/database.py): a statement engine over in-memory tables    *)
(* with a JSON snapshot file.                                              *)
(*                                                                         *)
(* Python str values are modelled as sequences of one-character strings,   *)
(* so that the engine's substring scanning, quote handling and literal     *)
(* coercion are computed as the code computes them.  Indices are 0-based,  *)
(* as in the source, and -1 is str.find's "not found".                     *)
(***************************************************************************)
EXTENDS Integers, Sequences, FiniteSets, TLC

VARIABLES tables, schemas, primary_keys, unique_columns, indexes, file, result,
          validated

vars == <<tables, schemas, primary_keys, unique_columns, indexes, file, result, validated>>

(***************************************************************************)
(* Bounds of the model.                                                    *)
(***************************************************************************)
\* the most rows a table holds before further INSERTs are not explored
MaxRows == 2

\* the same, for the tables the SELECT statements are run over
MaxSelectRows == 3

\* the most INSERT calls that have validated their row and not yet appended it
MaxOverlap == 2

(***************************************************************************)
(* Python str operations                                                   *)
(***************************************************************************)
\* the printable ASCII characters in code-point order, from 32 (space);
\* code point 96 is held by a name, the character itself not being writable here
Ascii ==
  <<" ", "!", "\"", "#", "$", "%", "&", "'", "(", ")", "*", "+", ",", "-", ".", "/",
    "0", "1", "2", "3", "4", "5", "6", "7", "8", "9", ":", ";", "<", "=", ">", "?",
    "@", "A", "B", "C", "D", "E", "F", "G", "H", "I", "J", "K", "L", "M", "N", "O",
    "P", "Q", "R", "S", "T", "U", "V", "W", "X", "Y", "Z", "[", "\\", "]", "^", "_",
    "BACKTICK", "a", "b", "c", "d", "e", "f", "g", "h", "i", "j", "k", "l", "m", "n", "o",
    "p", "q", "r", "s", "t", "u", "v", "w", "x", "y", "z", "{", "|", "}", "~">>

\* ord(c)
Ord(c) == 31 + (CHOOSE i \in 1..Len(Ascii) : Ascii[i] = c)

Max(a, b) == IF a < b THEN b ELSE a

Min(a, b) == IF a < b THEN a ELSE b

\* s[a:b] with Python's clamping and negative indices
Slice(s, a, b) ==
  LET n  == Len(s)
      lo == IF a < 0 THEN Max(a + n, 0) ELSE Min(a, n)
      hi == IF b < 0 THEN Max(b + n, 0) ELSE Min(b, n)
  IN  IF lo < hi THEN SubSeq(s, lo + 1, hi) ELSE <<>>

\* s[a:]
SliceFrom(s, a) == Slice(s, a, Len(s))

\* sub occurs in s at 0-based offset i
OccursAt(s, sub, i) ==
  /\ i >= 0
  /\ i + Len(sub) <= Len(s)
  /\ \A k \in 1..Len(sub) : s[i + k] = sub[k]

RECURSIVE FindUpward(_, _, _)
\* the scan of str.find: the lowest offset from i on at which sub occurs
FindUpward(s, sub, i) ==
  IF i + Len(sub) > Len(s) THEN -1
  ELSE IF OccursAt(s, sub, i) THEN i
  ELSE FindUpward(s, sub, i + 1)

RECURSIVE FindDownward(_, _, _)
\* the scan of str.rfind: the highest offset up to i at which sub occurs
FindDownward(s, sub, i) ==
  IF i < 0 THEN -1
  ELSE IF OccursAt(s, sub, i) THEN i
  ELSE FindDownward(s, sub, i - 1)

\* s.find(sub, start)
FindFrom(s, sub, start) ==
  FindUpward(s, sub, IF start < 0 THEN Max(start + Len(s), 0) ELSE start)

\* s.find(sub)
Find(s, sub) == FindUpward(s, sub, 0)

\* s.rfind(sub)
RFind(s, sub) == FindDownward(s, sub, Len(s) - Len(sub))

\* sub in s
Contains(s, sub) == Find(s, sub) # -1

StartsWith(s, sub) == OccursAt(s, sub, 0)

EndsWith(s, sub) == OccursAt(s, sub, Len(s) - Len(sub))

LowerCase ==
  <<"a", "b", "c", "d", "e", "f", "g", "h", "i", "j", "k", "l", "m",
    "n", "o", "p", "q", "r", "s", "t", "u", "v", "w", "x", "y", "z">>

UpperCase ==
  <<"A", "B", "C", "D", "E", "F", "G", "H", "I", "J", "K", "L", "M",
    "N", "O", "P", "Q", "R", "S", "T", "U", "V", "W", "X", "Y", "Z">>

UpperChar(c) ==
  IF \E i \in 1..26 : LowerCase[i] = c
  THEN UpperCase[CHOOSE i \in 1..26 : LowerCase[i] = c]
  ELSE c

RECURSIVE Upper(_)
\* s.upper()
Upper(s) == IF s = <<>> THEN <<>> ELSE <<UpperChar(Head(s))>> \o Upper(Tail(s))

IsSpace(c) == c = " "

RECURSIVE FirstKept(_, _)
\* the position of the first character that is not a space, from i upward
FirstKept(s, i) ==
  IF i > Len(s) THEN i ELSE IF IsSpace(s[i]) THEN FirstKept(s, i + 1) ELSE i

RECURSIVE LastKept(_, _)
\* the position of the last character that is not a space, from i downward
LastKept(s, i) ==
  IF i < 1 THEN 0 ELSE IF IsSpace(s[i]) THEN LastKept(s, i - 1) ELSE i

\* s.strip()
Strip(s) == SubSeq(s, FirstKept(s, 1), LastKept(s, Len(s)))

RECURSIVE SplitFrom(_, _, _)
\* the pieces of s from the occurrence of sep at offset p on (p = -1: none left)
SplitFrom(s, sep, p) ==
  IF p = -1 THEN <<s>>
  ELSE <<Slice(s, 0, p)>>
       \o SplitFrom(SliceFrom(s, p + Len(sep)), sep, Find(SliceFrom(s, p + Len(sep)), sep))

\* s.split(sep)
Split(s, sep) == SplitFrom(s, sep, Find(s, sep))

\* s.split(sep, 1)
SplitOnce(s, sep) ==
  LET Cut(p) == IF p = -1 THEN <<s>> ELSE <<Slice(s, 0, p), SliceFrom(s, p + Len(sep))>>
  IN  Cut(Find(s, sep))

RECURSIVE SplitWords(_)
\* s.split(): the runs of non-space characters
SplitWords(s) ==
  LET Words(t, p) ==
        IF t = <<>> THEN <<>>
        ELSE IF p = -1 THEN <<t>>
        ELSE <<Slice(t, 0, p)>> \o SplitWords(SliceFrom(t, p))
  IN  Words(Strip(s), Find(Strip(s), <<" ">>))

RECURSIVE Replace(_, _, _)
\* s.replace(old, new)
Replace(s, old, new) ==
  LET At(p) == IF p = -1 THEN s
               ELSE Slice(s, 0, p) \o new \o Replace(SliceFrom(s, p + Len(old)), old, new)
  IN  At(Find(s, old))

Digits == <<"0", "1", "2", "3", "4", "5", "6", "7", "8", "9">>

IsDigit(c) == \E i \in 1..10 : Digits[i] = c

\* the value of a decimal digit
DigitValue(c) == (CHOOSE i \in 1..10 : Digits[i] = c) - 1

RECURSIVE DigitsValue(_)
DigitsValue(d) ==
  IF d = <<>> THEN 0
  ELSE 10 * DigitsValue(SubSeq(d, 1, Len(d) - 1)) + DigitValue(d[Len(d)])

\* int(s): [ok |-> FALSE] stands for the ValueError int() raises
ParseInt(s) ==
  LET Signed(t, neg, d) ==
        IF d # <<>> /\ \A i \in 1..Len(d) : IsDigit(d[i])
        THEN [ok |-> TRUE, val |-> IF neg THEN 0 - DigitsValue(d) ELSE DigitsValue(d)]
        ELSE [ok |-> FALSE, val |-> 0]
      Of(t) == IF t # <<>> /\ t[1] \in {"+", "-"} THEN Signed(t, t[1] = "-", Tail(t))
               ELSE Signed(t, FALSE, t)
  IN  Of(Strip(s))

RECURSIVE NatToText(_)
NatToText(n) ==
  IF n < 10 THEN <<Digits[n + 1]>> ELSE NatToText(n \div 10) \o <<Digits[(n % 10) + 1]>>

\* str(n) of an int
IntToText(n) == IF n < 0 THEN <<"-">> \o NatToText(0 - n) ELSE NatToText(n)

RECURSIVE TextLess(_, _)
\* a < b on str: lexicographic by code point
TextLess(a, b) ==
  IF b = <<>> THEN FALSE
  ELSE IF a = <<>> THEN TRUE
  ELSE IF a[1] # b[1] THEN Ord(a[1]) < Ord(b[1])
  ELSE TextLess(Tail(a), Tail(b))

(***************************************************************************)
(* The keywords and markers the engine scans for                           *)
(***************************************************************************)
\* each searched as written: the engine upper-cases the text, never the keyword
kw ==
  [CreateTable |-> <<"C", "R", "E", "A", "T", "E", " ", "T", "A", "B", "L", "E">>,
   InsertInto  |-> <<"I", "N", "S", "E", "R", "T", " ", "I", "N", "T", "O">>,
   Select      |-> <<"S", "E", "L", "E", "C", "T">>,
   Update      |-> <<"U", "P", "D", "A", "T", "E">>,
   Delete      |-> <<"D", "E", "L", "E", "T", "E">>,
   Values      |-> <<"V", "A", "L", "U", "E", "S">>,
   From        |-> <<"F", "R", "O", "M">>,
   Where       |-> <<"W", "H", "E", "R", "E">>,
   OrderBy     |-> <<"O", "R", "D", "E", "R", " ", "B", "Y">>,
   Limit       |-> <<"L", "I", "M", "I", "T">>,
   Join        |-> <<"J", "O", "I", "N">>,
   Left        |-> <<"L", "E", "F", "T">>,
   Inner       |-> <<"I", "N", "N", "E", "R">>,
   On          |-> <<"O", "N">>,
   Set         |-> <<"S", "E", "T">>,
   Desc        |-> <<"D", "E", "S", "C">>,
   PrimaryKey  |-> <<"P", "R", "I", "M", "A", "R", "Y", " ", "K", "E", "Y">>,
   Primary     |-> <<"P", "R", "I", "M", "A", "R", "Y">>,
   Unique      |-> <<"U", "N", "I", "Q", "U", "E">>,
   Foreign     |-> <<"F", "O", "R", "E", "I", "G", "N">>,
   ForeignKey  |-> <<"F", "O", "R", "E", "I", "G", "N", " ", "K", "E", "Y">>,
   Int         |-> <<"I", "N", "T">>,
   Varchar     |-> <<"V", "A", "R", "C", "H", "A", "R">>,
   Null        |-> <<"N", "U", "L", "L">>,
   True        |-> <<"T", "R", "U", "E">>,
   False       |-> <<"F", "A", "L", "S", "E">>]

(***************************************************************************)
(* Python values: None, bool, int and str, one record shape for all        *)
(***************************************************************************)
None == [t |-> "null", i |-> 0, s |-> <<>>]

PyBool(b) == [t |-> "bool", i |-> IF b THEN 1 ELSE 0, s |-> <<>>]

PyInt(n) == [t |-> "int", i |-> n, s |-> <<>>]

PyStr(s) == [t |-> "str", i |-> 0, s |-> s]

\* isinstance(v, int): bool is a subclass of int
IsInt(v) == v.t \in {"int", "bool"}

IsStr(v) == v.t = "str"

\* a == b: numbers compare by value (True == 1), None equals only None
PyEq(a, b) == IF IsInt(a) /\ IsInt(b) THEN a.i = b.i ELSE a.t = b.t /\ a = b

\* a < b is defined (it raises TypeError otherwise)
Orderable(a, b) == (IsInt(a) /\ IsInt(b)) \/ (IsStr(a) /\ IsStr(b))

\* a < b, for Orderable(a, b)
PyLess(a, b) == IF IsInt(a) THEN a.i < b.i ELSE TextLess(a.s, b.s)

\* bool(v)
Truthy(v) ==
  CASE v.t = "null" -> FALSE
    [] v.t = "str"  -> v.s # <<>>
    [] OTHER        -> v.i # 0

(***************************************************************************)
(* dict with insertion order: a sequence of <<key, value>> pairs           *)
(***************************************************************************)
DictKeys(d) == [i \in 1..Len(d) |-> d[i][1]]

DictHas(d, k) == \E i \in 1..Len(d) : d[i][1] = k

DictGet(d, k) == d[CHOOSE i \in 1..Len(d) : d[i][1] = k][2]

\* d[k] = v: a present key keeps its place
DictSet(d, k, v) ==
  IF DictHas(d, k)
  THEN [i \in 1..Len(d) |-> IF d[i][1] = k THEN <<k, v>> ELSE d[i]]
  ELSE Append(d, <<k, v>>)

\* zip(a, b)
Zip(a, b) == [i \in 1..Min(Len(a), Len(b)) |-> <<a[i], b[i]>>]

\* row.get(k): None for a missing column
RowGet(row, k) == IF k \in DOMAIN row THEN row[k] ELSE None

\* row.update(other)
RowUpdate(row, other) ==
  [k \in DOMAIN row \cup DOMAIN other |-> IF k \in DOMAIN other THEN other[k] ELSE row[k]]

EmptyRow == [k \in {} |-> None]

RECURSIVE RowOfPairs(_)
\* the dict built by assigning the pairs in order (a later pair wins)
RowOfPairs(pairs) ==
  IF pairs = <<>> THEN EmptyRow
  ELSE LET last == pairs[Len(pairs)]
           k    == last[1]
       IN  RowUpdate(RowOfPairs(SubSeq(pairs, 1, Len(pairs) - 1)),
                     [c \in {k} |-> last[2]])

(***************************************************************************)
(* CREATE TABLE                                                            *)
(***************************************************************************)
\* one pass of the loop over the column definitions
ParseColDef(acc, raw) ==
  LET Column(unique1, parts, up) ==
        IF Contains(up, kw.ForeignKey) \/ parts = <<>>
        THEN [acc EXCEPT !.unique_columns = unique1]
        ELSE [schema         |-> DictSet(acc.schema, parts[1],
                                         IF Len(parts) > 1 THEN parts[2] ELSE kw.Varchar),
              primary_key    |-> IF Contains(up, kw.Primary) THEN PyStr(parts[1])
                                 ELSE acc.primary_key,
              unique_columns |-> IF Contains(up, kw.Unique) THEN Append(unique1, parts[1])
                                 ELSE unique1]
      Rest(unique1, col_def) == Column(unique1, SplitWords(col_def), Upper(col_def))
      Def(col_def, up) ==
        IF Contains(up, kw.PrimaryKey)
        THEN IF Contains(col_def, <<"(">>)
             THEN [acc EXCEPT !.primary_key =
                     PyStr(Strip(Split(Split(col_def, <<"(">>)[2], <<")">>)[1]))]
             ELSE acc
        ELSE IF Contains(up, kw.Unique) /\ ~Contains(up, kw.Foreign)
        THEN Rest(Append(acc.unique_columns, SplitWords(col_def)[1]),
                  Strip(Replace(col_def, kw.Unique, <<>>)))
        ELSE Rest(acc.unique_columns, col_def)
  IN  Def(Strip(raw), Upper(Strip(raw)))

RECURSIVE ParseColDefs(_, _)
ParseColDefs(acc, defs) ==
  IF defs = <<>> THEN acc ELSE ParseColDefs(ParseColDef(acc, Head(defs)), Tail(defs))

\* _parse_create_table: table name, schema, primary key, unique columns
ParseCreateTable(sql) ==
  LET Result(table_name, parsed) ==
        [table_name     |-> table_name,
         schema         |-> parsed.schema,
         primary_key    |-> parsed.primary_key,
         unique_columns |-> parsed.unique_columns]
  IN  Result(Strip(Slice(sql, Find(Upper(sql), kw.CreateTable) + Len(kw.CreateTable),
                         Find(sql, <<"(">>))),
             ParseColDefs([schema |-> <<>>, primary_key |-> None, unique_columns |-> <<>>],
                          Split(Strip(Slice(sql, Find(sql, <<"(">>) + 1, RFind(sql, <<")">>))),
                                <<",">>)))

(***************************************************************************)
(* INSERT                                                                  *)
(***************************************************************************)
RECURSIVE SplitValues(_, _, _, _)
\* the character loop of _parse_insert: commas outside quotes separate values,
\* and every character, quotes included, is kept in the value
SplitValues(rest, current, in_quotes, values) ==
  IF rest = <<>> THEN Append(values, Strip(current))
  ELSE IF Head(rest) = "'" /\ (current = <<>> \/ current[Len(current)] # "\\")
  THEN SplitValues(Tail(rest), Append(current, Head(rest)), ~in_quotes, values)
  ELSE IF Head(rest) = "," /\ ~in_quotes
  THEN SplitValues(Tail(rest), <<>>, in_quotes, Append(values, Strip(current)))
  ELSE SplitValues(Tail(rest), Append(current, Head(rest)), in_quotes, values)

\* _parse_insert: table name, column list (has_columns false for None), values
ParseInsert(sql) ==
  LET Columns(cols) == [i \in 1..Len(cols) |-> Strip(cols[i])]
      Parts(insert_start, insert_end, col_start, val_start) ==
        [table_name  |-> Strip(Split(Strip(Slice(sql, insert_start, insert_end)), <<"(">>)[1]),
         has_columns |-> col_start < insert_end,
         columns     |-> IF col_start < insert_end
                         THEN Columns(Split(Slice(sql, col_start + 1,
                                                  FindFrom(sql, <<")">>, col_start)), <<",">>))
                         ELSE <<>>,
         values      |-> SplitValues(Strip(Slice(sql, val_start + 1, RFind(sql, <<")">>))),
                                     <<>>, FALSE, <<>>)]
      Scan(up) == Parts(Find(up, kw.InsertInto) + Len(kw.InsertInto), Find(up, kw.Values),
                        Find(sql, <<"(">>),
                        FindFrom(sql, <<"(">>, Find(up, kw.Values) + Len(kw.Values)))
  IN  Scan(Upper(sql))

\* int(val) under try/except: the int, or the text itself when int() raises
IntOrText(v) ==
  LET Of(n) == IF n.ok THEN PyInt(n.val) ELSE PyStr(v)
  IN  Of(ParseInt(v))

\* the NULL / TRUE / FALSE / INT ladder shared by _convert_value and insert_row
ConvertText(v, up, is_int) ==
  IF up = kw.Null THEN None
  ELSE IF up = kw.True THEN PyBool(TRUE)
  ELSE IF up = kw.False THEN PyBool(FALSE)
  ELSE IF is_int THEN IntOrText(v)
  ELSE PyStr(v)

\* _convert_value, for the str values _parse_insert hands over
ConvertValue(val, col_name, schema) ==
  ConvertText(Strip(val), Upper(Strip(val)),
              DictHas(schema, col_name) /\ Contains(Upper(DictGet(schema, col_name)), kw.Int))

\* the row _insert builds from the parsed statement
InsertRowOf(p, schema) ==
  LET Row(pairs) ==
        RowOfPairs([i \in 1..Len(pairs) |->
                      <<pairs[i][1], ConvertValue(pairs[i][2], pairs[i][1], schema)>>])
  IN  Row(Zip(IF p.has_columns THEN p.columns ELSE DictKeys(schema), p.values))

\* the conversion insert_row applies to one value of a schema column
ConvertField(val, col_type) ==
  IF ~IsStr(val) THEN val
  ELSE ConvertText(Strip(val.s), Upper(Strip(val.s)), Contains(Upper(col_type), kw.Int))

\* the row insert_row builds: the columns of data the schema has, converted
InsertRowRow(data, schema) ==
  [c \in {k \in DOMAIN data : DictHas(schema, k)} |-> ConvertField(data[c], DictGet(schema, c))]

(***************************************************************************)
(* WHERE: one binary comparison                                            *)
(***************************************************************************)
\* the operators in the order _evaluate_where tries them
WhereOps == << <<"=">>, <<"!", "=">>, <<"<">>, <<">">>, <<"<", "=">>, <<">", "=">> >>

RECURSIVE FirstOp(_, _)
\* the index of the first operator of WhereOps, from k on, that occurs in the
\* clause; 0 when none does
FirstOp(where_clause, k) ==
  IF k > Len(WhereOps) THEN 0
  ELSE IF Contains(where_clause, WhereOps[k]) THEN k
  ELSE FirstOp(where_clause, k + 1)

\* the literal right of the operator: quoted text, an int, or the bare text
WhereLiteral(right) ==
  IF StartsWith(right, <<"'">>) /\ EndsWith(right, <<"'">>)
  THEN PyStr(Slice(right, 1, -1))
  ELSE IntOrText(right)

\* the part of _evaluate_where that does not read the row: the first operator of
\* WhereOps that occurs in the clause, the text left of its first occurrence, and
\* the literal right of it
ParseWhere(where_clause) ==
  LET Sides(op, parts) ==
        [found |-> TRUE, op |-> op, left |-> Strip(parts[1]),
         right_val |-> WhereLiteral(Strip(parts[2]))]
      Of(k) == IF k = 0 THEN [found |-> FALSE, op |-> <<>>, left |-> <<>>, right_val |-> None]
               ELSE Sides(WhereOps[k], SplitOnce(where_clause, WhereOps[k]))
  IN  Of(FirstOp(where_clause, 1))

\* str(v) of a bool or an int
StrOf(v) ==
  IF v.t = "bool" THEN (IF v.i = 1 THEN <<"T", "r", "u", "e">> ELSE <<"F", "a", "l", "s", "e">>)
  ELSE IntToText(v.i)

\* a comparison that takes < for <=: must be told from Compare
CompareLessAsAtMost(op, l1, r1) ==
  CASE op = <<"=">>      -> PyEq(l1, r1)
    [] op = <<"!", "=">> -> ~PyEq(l1, r1)
    [] op = <<"<">>      -> Orderable(l1, r1) /\ ~PyLess(r1, l1)
    [] op = <<">">>      -> Orderable(l1, r1) /\ PyLess(r1, l1)
    [] op = <<"<", "=">> -> Orderable(l1, r1) /\ ~PyLess(r1, l1)
    [] op = <<">", "=">> -> Orderable(l1, r1) /\ ~PyLess(l1, r1)

\* a comparison that lets a row through when its two sides cannot be ordered:
\* must be told from Compare
CompareUnorderedHolds(op, l1, r1) ==
  CASE op = <<"=">>      -> PyEq(l1, r1)
    [] op = <<"!", "=">> -> ~PyEq(l1, r1)
    [] op = <<"<">>      -> Orderable(l1, r1) => PyLess(l1, r1)
    [] op = <<">">>      -> Orderable(l1, r1) => PyLess(r1, l1)
    [] op = <<"<", "=">> -> Orderable(l1, r1) => ~PyLess(r1, l1)
    [] op = <<">", "=">> -> Orderable(l1, r1) => ~PyLess(l1, r1)

\* the comparison of _evaluate_where, a TypeError counting as False
Compare(op, l1, r1) ==
  CASE op = <<"=">>      -> PyEq(l1, r1)
    [] op = <<"!", "=">> -> ~PyEq(l1, r1)
    [] op = <<"<">>      -> Orderable(l1, r1) /\ PyLess(l1, r1)
    [] op = <<">">>      -> Orderable(l1, r1) /\ PyLess(r1, l1)
    [] op = <<"<", "=">> -> Orderable(l1, r1) /\ ~PyLess(r1, l1)
    [] op = <<">", "=">> -> Orderable(l1, r1) /\ ~PyLess(l1, r1)

\* the rest of _evaluate_where: coercion of the two sides, then the comparison
CompareWhere(row, w) ==
  LET Coerce(l0, r0) ==
        IF IsInt(l0) /\ IsStr(r0)
        THEN (LET Of(n) == IF n.ok THEN Compare(w.op, l0, PyInt(n.val))
                           ELSE Compare(w.op, PyStr(StrOf(l0)), r0)
              IN  Of(ParseInt(r0.s)))
        ELSE IF IsStr(l0) /\ IsInt(r0)
        THEN (LET Of(n) == IF n.ok THEN Compare(w.op, PyInt(n.val), r0)
                           ELSE Compare(w.op, l0, PyStr(StrOf(r0)))
              IN  Of(ParseInt(l0.s)))
        ELSE Compare(w.op, l0, r0)
  IN  IF ~w.found THEN TRUE ELSE Coerce(RowGet(row, w.left), w.right_val)

\* _evaluate_where(row, where_clause)
EvaluateWhere(row, where_clause) == CompareWhere(row, ParseWhere(where_clause))

(***************************************************************************)
(* UPDATE and DELETE: parsing                                              *)
(***************************************************************************)
\* the value one assignment of the SET clause stores
UpdateValue(raw, col, schema) ==
  LET Typed(val) ==
        IF ~DictHas(schema, col) THEN PyStr(val)
        ELSE IF Contains(Upper(DictGet(schema, col)), kw.Int)
        THEN IF val = kw.Null THEN None ELSE IntOrText(val)
        ELSE IF Upper(val) = kw.True THEN PyBool(TRUE)
        ELSE IF Upper(val) = kw.False THEN PyBool(FALSE)
        ELSE IF Upper(val) = kw.Null THEN None
        ELSE PyStr(val)
      Unquoted(v0) ==
        Typed(IF StartsWith(v0, <<"'">>) /\ EndsWith(v0, <<"'">>) THEN Slice(v0, 1, -1) ELSE v0)
  IN  Unquoted(Strip(raw))

\* the WHERE clause of _update and _delete: the text after the keyword, and its
\* reading by _evaluate_where
WherePart(sql, where_pos) ==
  LET Of(clause) == [has_where |-> where_pos # -1, where_clause |-> clause,
                     where |-> ParseWhere(clause)]
  IN  Of(IF where_pos # -1 THEN Strip(SliceFrom(sql, where_pos + 5)) ELSE <<>>)

\* the text part of _update: table name, the assignments as <<column, text>>
\* pairs in statement order, and the WHERE clause
ParseUpdate(sql) ==
  LET Pair(parts) == <<Strip(parts[1]), parts[2]>>
      Pairs(halves) ==
        LET two == SelectSeq(halves, LAMBDA h : Len(h) = 2)
        IN  [i \in 1..Len(two) |-> Pair(two[i])]
      Halves(assigns) == [i \in 1..Len(assigns) |-> SplitOnce(assigns[i], <<"=">>)]
      Parts(set_pos, where_pos, w) ==
        [table_name   |-> Strip(Slice(sql, Find(Upper(sql), kw.Update) + Len(kw.Update), set_pos)),
         assignments  |-> Pairs(Halves(Split(Strip(Slice(sql, set_pos + 3,
                                     IF where_pos # -1 THEN where_pos ELSE Len(sql))), <<",">>))),
         has_where    |-> w.has_where,
         where_clause |-> w.where_clause,
         where        |-> w.where]
      Scan(up) == Parts(Find(up, kw.Set), Find(up, kw.Where), WherePart(sql, Find(up, kw.Where)))
  IN  Scan(Upper(sql))

\* the dict of updates _update builds against the table's schema
UpdatesOf(p, schema) ==
  RowOfPairs([i \in 1..Len(p.assignments) |->
                <<p.assignments[i][1],
                  UpdateValue(p.assignments[i][2], p.assignments[i][1], schema)>>])

\* the text part of _delete: table name and WHERE clause
ParseDelete(sql) ==
  LET Parts(from_pos, where_pos, w) ==
        [table_name   |-> Strip(Slice(sql, from_pos,
                                      IF where_pos # -1 THEN where_pos ELSE Len(sql))),
         has_where    |-> w.has_where,
         where_clause |-> w.where_clause,
         where        |-> w.where]
      Scan(up) == Parts(Find(up, kw.From) + Len(kw.From), Find(up, kw.Where),
                        WherePart(sql, Find(up, kw.Where)))
  IN  Scan(Upper(sql))

(***************************************************************************)
(* The statements and calls explored                                       *)
(***************************************************************************)
tUsers == <<"u", "s", "e", "r", "s">>

tPosts == <<"p", "o", "s", "t", "s">>

tAccounts == <<"a", "c", "c", "o", "u", "n", "t", "s">>

tGhost == <<"g", "h", "o", "s", "t">>

cId == <<"i", "d">>

cName == <<"n", "a", "m", "e">>

cUserId == <<"u", "s", "e", "r", "_", "i", "d">>

cExtra == <<"e", "x", "t", "r", "a">>

\* CREATE TABLE with a table-level PRIMARY KEY clause, and with no key
CreateStmts ==
  <<
    \* CREATE TABLE users (id INT, name TEXT UNIQUE, PRIMARY KEY (id))
    <<"C", "R", "E", "A", "T", "E", " ", "T", "A", "B", "L", "E", " ", "u", "s", "e", "r", "s", " ", "(", "i", "d", " ", "I", "N", "T", ",", " ", "n", "a", "m", "e", " ", "T", "E", "X", "T", " ", "U", "N", "I", "Q", "U", "E", ",", " ", "P", "R", "I", "M", "A", "R", "Y", " ", "K", "E", "Y", " ", "(", "i", "d", ")", ")">>,
    \* CREATE TABLE posts (id INT, user_id INT)
    <<"C", "R", "E", "A", "T", "E", " ", "T", "A", "B", "L", "E", " ", "p", "o", "s", "t", "s", " ", "(", "i", "d", " ", "I", "N", "T", ",", " ", "u", "s", "e", "r", "_", "i", "d", " ", "I", "N", "T", ")">>
  >>

\* CREATE TABLE with an inline PRIMARY KEY column
InlineCreateStmts ==
  <<
    \* CREATE TABLE accounts (id INT PRIMARY KEY, name TEXT)
    <<"C", "R", "E", "A", "T", "E", " ", "T", "A", "B", "L", "E", " ", "a", "c", "c", "o", "u", "n", "t", "s", " ", "(", "i", "d", " ", "I", "N", "T", " ", "P", "R", "I", "M", "A", "R", "Y", " ", "K", "E", "Y", ",", " ", "n", "a", "m", "e", " ", "T", "E", "X", "T", ")">>
  >>

\* INSERT with and without a column list, and of a bool and a NULL
InsertStmts ==
  <<
    \* INSERT INTO users (id, name) VALUES (1, 'a')
    <<"I", "N", "S", "E", "R", "T", " ", "I", "N", "T", "O", " ", "u", "s", "e", "r", "s", " ", "(", "i", "d", ",", " ", "n", "a", "m", "e", ")", " ", "V", "A", "L", "U", "E", "S", " ", "(", "1", ",", " ", "'", "a", "'", ")">>,
    \* INSERT INTO users VALUES (2, 'b')
    <<"I", "N", "S", "E", "R", "T", " ", "I", "N", "T", "O", " ", "u", "s", "e", "r", "s", " ", "V", "A", "L", "U", "E", "S", " ", "(", "2", ",", " ", "'", "b", "'", ")">>,
    \* INSERT INTO posts VALUES (TRUE, NULL)
    <<"I", "N", "S", "E", "R", "T", " ", "I", "N", "T", "O", " ", "p", "o", "s", "t", "s", " ", "V", "A", "L", "U", "E", "S", " ", "(", "T", "R", "U", "E", ",", " ", "N", "U", "L", "L", ")">>
  >>

\* further INSERTs: an equal name alone, an equal key alone, a row without
\* the key, a NULL key, a bool key, a table that does not exist, and rows for
\* the inline-key table
MoreInsertStmts ==
  <<
    \* INSERT INTO ghost VALUES (1)
    <<"I", "N", "S", "E", "R", "T", " ", "I", "N", "T", "O", " ", "g", "h", "o", "s", "t", " ", "V", "A", "L", "U", "E", "S", " ", "(", "1", ")">>,
    \* INSERT INTO users (id, name) VALUES (2, 'a')
    <<"I", "N", "S", "E", "R", "T", " ", "I", "N", "T", "O", " ", "u", "s", "e", "r", "s", " ", "(", "i", "d", ",", " ", "n", "a", "m", "e", ")", " ", "V", "A", "L", "U", "E", "S", " ", "(", "2", ",", " ", "'", "a", "'", ")">>,
    \* INSERT INTO users (id, name) VALUES (1, 'b')
    <<"I", "N", "S", "E", "R", "T", " ", "I", "N", "T", "O", " ", "u", "s", "e", "r", "s", " ", "(", "i", "d", ",", " ", "n", "a", "m", "e", ")", " ", "V", "A", "L", "U", "E", "S", " ", "(", "1", ",", " ", "'", "b", "'", ")">>,
    \* INSERT INTO users (name) VALUES ('c')
    <<"I", "N", "S", "E", "R", "T", " ", "I", "N", "T", "O", " ", "u", "s", "e", "r", "s", " ", "(", "n", "a", "m", "e", ")", " ", "V", "A", "L", "U", "E", "S", " ", "(", "'", "c", "'", ")">>,
    \* INSERT INTO users (id) VALUES (NULL)
    <<"I", "N", "S", "E", "R", "T", " ", "I", "N", "T", "O", " ", "u", "s", "e", "r", "s", " ", "(", "i", "d", ")", " ", "V", "A", "L", "U", "E", "S", " ", "(", "N", "U", "L", "L", ")">>,
    \* INSERT INTO users VALUES (TRUE, 'd')
    <<"I", "N", "S", "E", "R", "T", " ", "I", "N", "T", "O", " ", "u", "s", "e", "r", "s", " ", "V", "A", "L", "U", "E", "S", " ", "(", "T", "R", "U", "E", ",", " ", "'", "d", "'", ")">>,
    \* INSERT INTO accounts (id, name) VALUES (1, 'a')
    <<"I", "N", "S", "E", "R", "T", " ", "I", "N", "T", "O", " ", "a", "c", "c", "o", "u", "n", "t", "s", " ", "(", "i", "d", ",", " ", "n", "a", "m", "e", ")", " ", "V", "A", "L", "U", "E", "S", " ", "(", "1", ",", " ", "'", "a", "'", ")">>
  >>

\* the rows the SELECT statements are run over
SelectInsertStmts ==
  <<
    \* INSERT INTO users VALUES (1, 'a')
    <<"I", "N", "S", "E", "R", "T", " ", "I", "N", "T", "O", " ", "u", "s", "e", "r", "s", " ", "V", "A", "L", "U", "E", "S", " ", "(", "1", ",", " ", "'", "a", "'", ")">>,
    \* INSERT INTO users VALUES (2, 'b')
    <<"I", "N", "S", "E", "R", "T", " ", "I", "N", "T", "O", " ", "u", "s", "e", "r", "s", " ", "V", "A", "L", "U", "E", "S", " ", "(", "2", ",", " ", "'", "b", "'", ")">>,
    \* INSERT INTO posts VALUES (10, 1)
    <<"I", "N", "S", "E", "R", "T", " ", "I", "N", "T", "O", " ", "p", "o", "s", "t", "s", " ", "V", "A", "L", "U", "E", "S", " ", "(", "1", "0", ",", " ", "1", ")">>,
    \* INSERT INTO posts VALUES (11, 1)
    <<"I", "N", "S", "E", "R", "T", " ", "I", "N", "T", "O", " ", "p", "o", "s", "t", "s", " ", "V", "A", "L", "U", "E", "S", " ", "(", "1", "1", ",", " ", "1", ")">>,
    \* INSERT INTO posts VALUES (12, 2)
    <<"I", "N", "S", "E", "R", "T", " ", "I", "N", "T", "O", " ", "p", "o", "s", "t", "s", " ", "V", "A", "L", "U", "E", "S", " ", "(", "1", "2", ",", " ", "2", ")">>,
    \* INSERT INTO posts (id) VALUES (13)
    <<"I", "N", "S", "E", "R", "T", " ", "I", "N", "T", "O", " ", "p", "o", "s", "t", "s", " ", "(", "i", "d", ")", " ", "V", "A", "L", "U", "E", "S", " ", "(", "1", "3", ")">>
  >>

UpdateStmts ==
  <<
    \* UPDATE users SET id = 1
    <<"U", "P", "D", "A", "T", "E", " ", "u", "s", "e", "r", "s", " ", "S", "E", "T", " ", "i", "d", " ", "=", " ", "1">>,
    \* UPDATE users SET name = '2' WHERE id = 2
    <<"U", "P", "D", "A", "T", "E", " ", "u", "s", "e", "r", "s", " ", "S", "E", "T", " ", "n", "a", "m", "e", " ", "=", " ", "'", "2", "'", " ", "W", "H", "E", "R", "E", " ", "i", "d", " ", "=", " ", "2">>
  >>

DeleteStmts ==
  <<
    \* DELETE FROM users WHERE id = 2
    <<"D", "E", "L", "E", "T", "E", " ", "F", "R", "O", "M", " ", "u", "s", "e", "r", "s", " ", "W", "H", "E", "R", "E", " ", "i", "d", " ", "=", " ", "2">>,
    \* DELETE FROM users
    <<"D", "E", "L", "E", "T", "E", " ", "F", "R", "O", "M", " ", "u", "s", "e", "r", "s">>,
    \* DELETE FROM posts WHERE user_id = 2
    <<"D", "E", "L", "E", "T", "E", " ", "F", "R", "O", "M", " ", "p", "o", "s", "t", "s", " ", "W", "H", "E", "R", "E", " ", "u", "s", "e", "r", "_", "i", "d", " ", "=", " ", "2">>
  >>

\* SELECT over two tables: the default join, and the join clause holding LEFT
JoinStmts ==
  <<
    \* SELECT * FROM users JOIN posts ON users.id = posts.user_id
    <<"S", "E", "L", "E", "C", "T", " ", "*", " ", "F", "R", "O", "M", " ", "u", "s", "e", "r", "s", " ", "J", "O", "I", "N", " ", "p", "o", "s", "t", "s", " ", "O", "N", " ", "u", "s", "e", "r", "s", ".", "i", "d", " ", "=", " ", "p", "o", "s", "t", "s", ".", "u", "s", "e", "r", "_", "i", "d">>,
    \* SELECT * FROM users JOIN LEFT posts ON users.id = posts.user_id
    <<"S", "E", "L", "E", "C", "T", " ", "*", " ", "F", "R", "O", "M", " ", "u", "s", "e", "r", "s", " ", "J", "O", "I", "N", " ", "L", "E", "F", "T", " ", "p", "o", "s", "t", "s", " ", "O", "N", " ", "u", "s", "e", "r", "s", ".", "i", "d", " ", "=", " ", "p", "o", "s", "t", "s", ".", "u", "s", "e", "r", "_", "i", "d">>
  >>

\* SELECT over one table, with WHERE, ORDER BY and LIMIT
SelectStmts ==
  <<
    \* SELECT * FROM posts WHERE id > 10 ORDER BY user_id DESC LIMIT 2
    <<"S", "E", "L", "E", "C", "T", " ", "*", " ", "F", "R", "O", "M", " ", "p", "o", "s", "t", "s", " ", "W", "H", "E", "R", "E", " ", "i", "d", " ", ">", " ", "1", "0", " ", "O", "R", "D", "E", "R", " ", "B", "Y", " ", "u", "s", "e", "r", "_", "i", "d", " ", "D", "E", "S", "C", " ", "L", "I", "M", "I", "T", " ", "2">>,
    \* SELECT * FROM posts WHERE id > 9 ORDER BY user_id LIMIT 1
    <<"S", "E", "L", "E", "C", "T", " ", "*", " ", "F", "R", "O", "M", " ", "p", "o", "s", "t", "s", " ", "W", "H", "E", "R", "E", " ", "i", "d", " ", ">", " ", "9", " ", "O", "R", "D", "E", "R", " ", "B", "Y", " ", "u", "s", "e", "r", "_", "i", "d", " ", "L", "I", "M", "I", "T", " ", "1">>
  >>

\* a statement execute does not know
OtherStmts ==
  <<
    \* DROP TABLE users
    <<"D", "R", "O", "P", " ", "T", "A", "B", "L", "E", " ", "u", "s", "e", "r", "s">>
  >>

\* statements whose literals WHERE and SET read: the six comparisons on an INT
\* column, a quoted text, a row without the compared column, and bare words
\* assigned to INT columns
LiteralStmts ==
  <<
    \* SELECT * FROM users WHERE id = 1
    <<"S", "E", "L", "E", "C", "T", " ", "*", " ", "F", "R", "O", "M", " ", "u", "s", "e", "r", "s", " ", "W", "H", "E", "R", "E", " ", "i", "d", " ", "=", " ", "1">>,
    \* SELECT * FROM users WHERE id < 2
    <<"S", "E", "L", "E", "C", "T", " ", "*", " ", "F", "R", "O", "M", " ", "u", "s", "e", "r", "s", " ", "W", "H", "E", "R", "E", " ", "i", "d", " ", "<", " ", "2">>,
    \* SELECT * FROM users WHERE id > 1
    <<"S", "E", "L", "E", "C", "T", " ", "*", " ", "F", "R", "O", "M", " ", "u", "s", "e", "r", "s", " ", "W", "H", "E", "R", "E", " ", "i", "d", " ", ">", " ", "1">>,
    \* SELECT * FROM users WHERE id != 1
    <<"S", "E", "L", "E", "C", "T", " ", "*", " ", "F", "R", "O", "M", " ", "u", "s", "e", "r", "s", " ", "W", "H", "E", "R", "E", " ", "i", "d", " ", "!", "=", " ", "1">>,
    \* SELECT * FROM users WHERE id <= 1
    <<"S", "E", "L", "E", "C", "T", " ", "*", " ", "F", "R", "O", "M", " ", "u", "s", "e", "r", "s", " ", "W", "H", "E", "R", "E", " ", "i", "d", " ", "<", "=", " ", "1">>,
    \* SELECT * FROM users WHERE id >= 2
    <<"S", "E", "L", "E", "C", "T", " ", "*", " ", "F", "R", "O", "M", " ", "u", "s", "e", "r", "s", " ", "W", "H", "E", "R", "E", " ", "i", "d", " ", ">", "=", " ", "2">>,
    \* SELECT * FROM users WHERE name = 'a'
    <<"S", "E", "L", "E", "C", "T", " ", "*", " ", "F", "R", "O", "M", " ", "u", "s", "e", "r", "s", " ", "W", "H", "E", "R", "E", " ", "n", "a", "m", "e", " ", "=", " ", "'", "a", "'">>,
    \* INSERT INTO users (name) VALUES ('c')
    <<"I", "N", "S", "E", "R", "T", " ", "I", "N", "T", "O", " ", "u", "s", "e", "r", "s", " ", "(", "n", "a", "m", "e", ")", " ", "V", "A", "L", "U", "E", "S", " ", "(", "'", "c", "'", ")">>,
    \* UPDATE posts SET id = TRUE
    <<"U", "P", "D", "A", "T", "E", " ", "p", "o", "s", "t", "s", " ", "S", "E", "T", " ", "i", "d", " ", "=", " ", "T", "R", "U", "E">>,
    \* UPDATE posts SET user_id = null
    <<"U", "P", "D", "A", "T", "E", " ", "p", "o", "s", "t", "s", " ", "S", "E", "T", " ", "u", "s", "e", "r", "_", "i", "d", " ", "=", " ", "n", "u", "l", "l">>
  >>

\* statements for the clauses of SELECT: a WHERE without an operator, over a
\* NULL and over a missing column, ORDER BY over a missing column and over a
\* NULL, a JOIN followed by WHERE and by LIMIT, a JOIN with the sides of ON
\* swapped, LIMIT with 0, a negative count, a word and 1; and the rows they run
\* over, one of them with a column the schema lacks
ClauseStmts ==
  <<
    \* SELECT * FROM users WHERE id
    <<"S", "E", "L", "E", "C", "T", " ", "*", " ", "F", "R", "O", "M", " ", "u", "s", "e", "r", "s", " ", "W", "H", "E", "R", "E", " ", "i", "d">>,
    \* SELECT * FROM posts WHERE user_id < 2
    <<"S", "E", "L", "E", "C", "T", " ", "*", " ", "F", "R", "O", "M", " ", "p", "o", "s", "t", "s", " ", "W", "H", "E", "R", "E", " ", "u", "s", "e", "r", "_", "i", "d", " ", "<", " ", "2">>,
    \* SELECT * FROM users WHERE extra > 0
    <<"S", "E", "L", "E", "C", "T", " ", "*", " ", "F", "R", "O", "M", " ", "u", "s", "e", "r", "s", " ", "W", "H", "E", "R", "E", " ", "e", "x", "t", "r", "a", " ", ">", " ", "0">>,
    \* SELECT * FROM users ORDER BY name
    <<"S", "E", "L", "E", "C", "T", " ", "*", " ", "F", "R", "O", "M", " ", "u", "s", "e", "r", "s", " ", "O", "R", "D", "E", "R", " ", "B", "Y", " ", "n", "a", "m", "e">>,
    \* SELECT * FROM posts ORDER BY user_id
    <<"S", "E", "L", "E", "C", "T", " ", "*", " ", "F", "R", "O", "M", " ", "p", "o", "s", "t", "s", " ", "O", "R", "D", "E", "R", " ", "B", "Y", " ", "u", "s", "e", "r", "_", "i", "d">>,
    \* SELECT * FROM users JOIN posts ON users.id = posts.user_id WHERE posts.id = 10
    <<"S", "E", "L", "E", "C", "T", " ", "*", " ", "F", "R", "O", "M", " ", "u", "s", "e", "r", "s", " ", "J", "O", "I", "N", " ", "p", "o", "s", "t", "s", " ", "O", "N", " ", "u", "s", "e", "r", "s", ".", "i", "d", " ", "=", " ", "p", "o", "s", "t", "s", ".", "u", "s", "e", "r", "_", "i", "d", " ", "W", "H", "E", "R", "E", " ", "p", "o", "s", "t", "s", ".", "i", "d", " ", "=", " ", "1", "0">>,
    \* SELECT * FROM users JOIN posts ON users.id = posts.user_id LIMIT 1
    <<"S", "E", "L", "E", "C", "T", " ", "*", " ", "F", "R", "O", "M", " ", "u", "s", "e", "r", "s", " ", "J", "O", "I", "N", " ", "p", "o", "s", "t", "s", " ", "O", "N", " ", "u", "s", "e", "r", "s", ".", "i", "d", " ", "=", " ", "p", "o", "s", "t", "s", ".", "u", "s", "e", "r", "_", "i", "d", " ", "L", "I", "M", "I", "T", " ", "1">>,
    \* SELECT * FROM users JOIN posts ON posts.user_id = users.id
    <<"S", "E", "L", "E", "C", "T", " ", "*", " ", "F", "R", "O", "M", " ", "u", "s", "e", "r", "s", " ", "J", "O", "I", "N", " ", "p", "o", "s", "t", "s", " ", "O", "N", " ", "p", "o", "s", "t", "s", ".", "u", "s", "e", "r", "_", "i", "d", " ", "=", " ", "u", "s", "e", "r", "s", ".", "i", "d">>,
    \* SELECT * FROM users LIMIT 0
    <<"S", "E", "L", "E", "C", "T", " ", "*", " ", "F", "R", "O", "M", " ", "u", "s", "e", "r", "s", " ", "L", "I", "M", "I", "T", " ", "0">>,
    \* SELECT * FROM users LIMIT -1
    <<"S", "E", "L", "E", "C", "T", " ", "*", " ", "F", "R", "O", "M", " ", "u", "s", "e", "r", "s", " ", "L", "I", "M", "I", "T", " ", "-", "1">>,
    \* SELECT * FROM users LIMIT x
    <<"S", "E", "L", "E", "C", "T", " ", "*", " ", "F", "R", "O", "M", " ", "u", "s", "e", "r", "s", " ", "L", "I", "M", "I", "T", " ", "x">>,
    \* SELECT * FROM users LIMIT 1
    <<"S", "E", "L", "E", "C", "T", " ", "*", " ", "F", "R", "O", "M", " ", "u", "s", "e", "r", "s", " ", "L", "I", "M", "I", "T", " ", "1">>,
    \* INSERT INTO users (id, extra) VALUES (3, 5)
    <<"I", "N", "S", "E", "R", "T", " ", "I", "N", "T", "O", " ", "u", "s", "e", "r", "s", " ", "(", "i", "d", ",", " ", "e", "x", "t", "r", "a", ")", " ", "V", "A", "L", "U", "E", "S", " ", "(", "3", ",", " ", "5", ")">>,
    \* INSERT INTO posts VALUES (10, 1)
    <<"I", "N", "S", "E", "R", "T", " ", "I", "N", "T", "O", " ", "p", "o", "s", "t", "s", " ", "V", "A", "L", "U", "E", "S", " ", "(", "1", "0", ",", " ", "1", ")">>,
    \* INSERT INTO posts VALUES (12, 2)
    <<"I", "N", "S", "E", "R", "T", " ", "I", "N", "T", "O", " ", "p", "o", "s", "t", "s", " ", "V", "A", "L", "U", "E", "S", " ", "(", "1", "2", ",", " ", "2", ")">>
  >>

\* the insert_row(table_name, data) calls: data maps columns to Python values
InsertRowCalls ==
  << [table_name |-> tUsers,
      data |-> (cId :> PyStr(<<"3">>) @@ cName :> PyStr(<<"s", "a", "y", " ", "\"", "h", "i", "\"">>))] >>

\* further calls: int and str values as they are, a column the schema lacks,
\* a table that does not exist
MoreInsertRowCalls ==
  << [table_name |-> tGhost, data |-> (cId :> PyInt(1))],
     [table_name |-> tUsers, data |-> (cId :> PyInt(1) @@ cName :> PyStr(<<"a">>))],
     [table_name |-> tUsers, data |-> (cId :> PyInt(3) @@ cExtra :> PyInt(5))] >>

Range(f) == {f[i] : i \in DOMAIN f}

(***************************************************************************)
(* SELECT                                                                  *)
(***************************************************************************)
\* what a SELECT gives back: the table it resolved, the exception it raised
\* ("none" when it returned) and the rows it returned
Selected(table, err, rows) == [table |-> table, err |-> err, rows |-> rows]

\* _apply_where, with the clause as _evaluate_where reads it
ApplyWhere(rows, w) == SelectSeq(rows, LAMBDA row : CompareWhere(row, w))

\* a key that is None for a row without the column: must be told from SortKey
SortKeyNone(row, col_name) == IF col_name \in DOMAIN row THEN row[col_name] ELSE None

\* the key of sorted(): x.get(col_name, '')
SortKey(row, col_name) == IF col_name \in DOMAIN row THEN row[col_name] ELSE PyStr(<<>>)

\* sorted() does not raise TypeError: with two rows or more it compares keys,
\* and every key must then be ordered against the others (None is ordered
\* against nothing, a number against numbers, a str against strs)
Sortable(rows, col_name) ==
  \A i \in 1..Len(rows) : \A j \in 1..Len(rows) :
    i # j => Orderable(SortKey(rows[i], col_name), SortKey(rows[j], col_name))

\* key a sorts strictly before key b
Before(a, b, reverse) == IF reverse THEN PyLess(b, a) ELSE PyLess(a, b)

RECURSIVE InsertInOrder(_, _, _, _)
\* row put behind every row of done that does not sort strictly after it
InsertInOrder(done, row, col_name, reverse) ==
  IF done = <<>> THEN <<row>>
  ELSE IF Before(SortKey(row, col_name), SortKey(Head(done), col_name), reverse)
  THEN <<row>> \o done
  ELSE <<Head(done)>> \o InsertInOrder(Tail(done), row, col_name, reverse)

RECURSIVE SortedRows(_, _, _)
\* sorted(rows, key=..., reverse=reverse): stable in both directions
SortedRows(rows, col_name, reverse) ==
  IF rows = <<>> THEN <<>>
  ELSE InsertInOrder(SortedRows(SubSeq(rows, 1, Len(rows) - 1), col_name, reverse),
                     rows[Len(rows)], col_name, reverse)

\* a sort that never reverses: the DESC order must tell it from ApplyOrderBy
OrderByAscending(rows, order_clause) ==
  LET By(col_name) == IF Sortable(rows, col_name) THEN SortedRows(rows, col_name, FALSE) ELSE rows
  IN  By(SplitWords(order_clause)[1])

\* _apply_order_by, for an order clause with a first word: the rows come back
\* as they are when sorted() raises
ApplyOrderBy(rows, order_clause) ==
  LET By(col_name, reverse) ==
        IF Sortable(rows, col_name) THEN SortedRows(rows, col_name, reverse) ELSE rows
      Of(parts) == By(parts[1], Len(parts) > 1 /\ Upper(parts[2]) = kw.Desc)
  IN  Of(SplitWords(order_clause))

\* the text part of _select without JOIN: the clause positions, the table name,
\* the WHERE clause as _evaluate_where reads it, the ORDER BY clause, and the
\* words after LIMIT
ParseSelect(sql) ==
  LET Parts(from_pos, where_pos, order_pos, limit_pos) ==
        [has_from     |-> from_pos # -1,
         table_name   |-> Strip(Slice(sql, from_pos + 5,
                                      IF where_pos # -1 THEN where_pos
                                      ELSE IF order_pos # -1 THEN order_pos
                                      ELSE IF limit_pos # -1 THEN limit_pos ELSE Len(sql))),
         has_where    |-> where_pos # -1,
         where        |-> ParseWhere(Strip(Slice(sql, where_pos + 5,
                                                 IF order_pos # -1 THEN order_pos
                                                 ELSE IF limit_pos # -1 THEN limit_pos
                                                 ELSE Len(sql)))),
         has_order    |-> order_pos # -1,
         order_clause |-> Strip(Slice(sql, order_pos + 8,
                                      IF limit_pos # -1 THEN limit_pos ELSE Len(sql))),
         has_limit    |-> limit_pos # -1,
         limit_words  |-> SplitWords(Strip(SliceFrom(sql, limit_pos + 5)))]
      Scan(up) == Parts(Find(up, kw.From), Find(up, kw.Where), Find(up, kw.OrderBy),
                        Find(up, kw.Limit))
  IN  Scan(Upper(sql))

\* rows[:limit_num] for the first word after LIMIT
ApplyLimit(table, rows, limit_words) ==
  LET Cut(n) == IF n.ok THEN Selected(table, "none", Slice(rows, 0, n.val))
                ELSE Selected(table, "ValueError", <<>>)
  IN  IF limit_words = <<>> THEN Selected(table, "IndexError", <<>>)
      ELSE Cut(ParseInt(limit_words[1]))

\* _select without JOIN, over the tables t: WHERE, then ORDER BY, then LIMIT
SelectSimple(p, t) ==
  LET Limit(rows) ==
        IF p.has_limit THEN ApplyLimit(p.table_name, rows, p.limit_words)
        ELSE Selected(p.table_name, "none", rows)
      Order(rows) ==
        IF ~p.has_order THEN Limit(rows)
        ELSE IF SplitWords(p.order_clause) = <<>>
        THEN Selected(p.table_name, "IndexError", <<>>)
        ELSE Limit(ApplyOrderBy(rows, p.order_clause))
      Where(rows) == Order(IF p.has_where THEN ApplyWhere(rows, p.where) ELSE rows)
  IN  IF ~p.has_from THEN Selected(<<>>, "NoFrom", <<>>)
      ELSE IF p.table_name \notin DOMAIN t THEN Selected(p.table_name, "UnknownTable", <<>>)
      ELSE Where(t[p.table_name])

\* the keys of row written table.column
Prefixed(table, row) ==
  [k \in {table \o <<".">> \o c : c \in DOMAIN row} |-> row[SubSeq(k, Len(table) + 2, Len(k))]]

\* the merged row of a matching pair
Merged(main_table, main_row, join_table, join_row) ==
  RowUpdate(Prefixed(main_table, main_row), Prefixed(join_table, join_row))

\* the merged row of an unmatched main row: the joined table's schema columns, None
MergedNone(main_table, main_row, join_table, schema) ==
  RowUpdate(Prefixed(main_table, main_row),
            [k \in {join_table \o <<".">> \o schema[i][1] : i \in 1..Len(schema)} |-> None])

RECURSIVE Concat(_)
Concat(seqs) == IF seqs = <<>> THEN <<>> ELSE Head(seqs) \o Concat(Tail(seqs))

\* the pairs taken joined row first: the join order must tell it from JoinLoop
JoinLoopByJoinedRow(main_table, main_rows, join_table, join_rows, left_field, right_field, is_left, schema) ==
  Concat([j \in 1..Len(join_rows) |->
            Concat([m \in 1..Len(main_rows) |->
                      IF PyEq(RowGet(main_rows[m], left_field), RowGet(join_rows[j], right_field))
                      THEN <<Merged(main_table, main_rows[m], join_table, join_rows[j])>>
                      ELSE <<>>])])

\* the two nested loops of _select_with_join; the LEFT branch sits inside the
\* loop over the joined rows
JoinLoop(main_table, main_rows, join_table, join_rows, left_field, right_field, is_left, schema) ==
  LET Match(m, j) == PyEq(RowGet(main_rows[m], left_field), RowGet(join_rows[j], right_field))
      Emit(m, j) ==
        IF Match(m, j)
        THEN <<Merged(main_table, main_rows[m], join_table, join_rows[j])>>
        ELSE IF is_left /\ ~\E x \in 1..Len(join_rows) : Match(m, x)
        THEN <<MergedNone(main_table, main_rows[m], join_table, schema)>>
        ELSE <<>>
  IN  Concat([m \in 1..Len(main_rows) |-> Concat([j \in 1..Len(join_rows) |-> Emit(m, j)])])

\* the text part of _select_with_join: main table, join type, joined table and
\* the two sides of the ON condition, each split on "."
ParseJoin(sql) ==
  LET Sides(sides) ==
        IF Len(sides) # 2 THEN [unpacks |-> FALSE, left |-> <<>>, right |-> <<>>]
        ELSE [unpacks |-> TRUE,
              left    |-> Split(Strip(sides[1]), <<".">>),
              right   |-> Split(Strip(sides[2]), <<".">>)]
      Clause(main_table, join_clause, on_pos, on_condition) ==
        [main_table |-> main_table,
         is_left    |-> Contains(Upper(join_clause), kw.Left),
         join_table |-> Strip(Replace(Replace(Replace(Slice(join_clause, 0, on_pos),
                                                      kw.Join, <<>>), kw.Left, <<>>),
                                      kw.Inner, <<>>)),
         has_equals |-> Contains(on_condition, <<"=">>),
         sides      |-> Sides(Split(on_condition, <<"=">>))]
      On(main_table, join_clause, on_pos) ==
        Clause(main_table, join_clause, on_pos, Strip(SliceFrom(join_clause, on_pos + 2)))
      Parts(main_table, join_clause) ==
        On(main_table, join_clause, Find(Upper(join_clause), kw.On))
      Positions(from_pos, join_pos, where_pos) ==
        Parts(Strip(Slice(sql, from_pos + 5, join_pos)),
              Strip(Slice(sql, join_pos, IF where_pos # -1 THEN where_pos ELSE Len(sql))))
      Scan(up) == Positions(Find(up, kw.From), Find(up, kw.Join), Find(up, kw.Where))
  IN  Scan(Upper(sql))

\* _select_with_join over the tables t and schemas s
SelectWithJoin(p, t, s) ==
  IF p.main_table \notin DOMAIN t \/ p.join_table \notin DOMAIN t
  THEN Selected(p.main_table, "KeyError", <<>>)
  ELSE IF ~p.has_equals THEN Selected(p.main_table, "InvalidJoin", <<>>)
  ELSE IF ~p.sides.unpacks \/ Len(p.sides.left) # 2 \/ Len(p.sides.right) # 2
  THEN Selected(p.main_table, "ValueError", <<>>)
  ELSE Selected(p.main_table, "none",
                JoinLoop(p.main_table, t[p.main_table], p.join_table, t[p.join_table],
                         p.sides.left[2], p.sides.right[2], p.is_left, s[p.join_table]))

\* the text part of _select: the join path when the text holds JOIN
ParseSelectStatement(sql) ==
  IF Contains(Upper(sql), kw.Join) THEN [is_join |-> TRUE, p |-> ParseJoin(sql)]
  ELSE [is_join |-> FALSE, p |-> ParseSelect(sql)]

\* _select over the tables t and schemas s
SelectRows(q, t, s) ==
  IF q.is_join THEN SelectWithJoin(q.p, t, s) ELSE SelectSimple(q.p, t)

(***************************************************************************)
(* The snapshot file: json.dump and json.load                              *)
(***************************************************************************)
RECURSIVE JsonEscape(_)
\* the characters of a str inside a JSON string
JsonEscape(s) ==
  IF s = <<>> THEN <<>>
  ELSE (IF Head(s) \in {"\"", "\\"} THEN <<"\\", Head(s)>> ELSE <<Head(s)>>)
       \o JsonEscape(Tail(s))

RECURSIVE JsonUnescape(_)
JsonUnescape(s) ==
  IF s = <<>> THEN <<>>
  ELSE IF Head(s) = "\\" /\ Len(s) > 1 THEN <<s[2]>> \o JsonUnescape(SubSeq(s, 3, Len(s)))
  ELSE <<Head(s)>> \o JsonUnescape(Tail(s))

\* a writer that gives a bool its number: the round trip must tell it from JsonDumps
JsonDumpsBoolAsInt(v) ==
  CASE v.t = "null" -> <<"n", "u", "l", "l">>
    [] v.t = "bool" -> IntToText(v.i)
    [] v.t = "int"  -> IntToText(v.i)
    [] v.t = "str"  -> <<"\"">> \o JsonEscape(v.s) \o <<"\"">>

\* the JSON text of a scalar
JsonDumps(v) ==
  CASE v.t = "null" -> <<"n", "u", "l", "l">>
    [] v.t = "bool" -> IF v.i = 1 THEN <<"t", "r", "u", "e">> ELSE <<"f", "a", "l", "s", "e">>
    [] v.t = "int"  -> IntToText(v.i)
    [] v.t = "str"  -> <<"\"">> \o JsonEscape(v.s) \o <<"\"">>

\* the scalar a JSON text stands for
JsonLoads(tok) ==
  IF Head(tok) = "\"" THEN PyStr(JsonUnescape(Slice(tok, 1, -1)))
  ELSE IF tok = <<"n", "u", "l", "l">> THEN None
  ELSE IF tok = <<"t", "r", "u", "e">> THEN PyBool(TRUE)
  ELSE IF tok = <<"f", "a", "l", "s", "e">> THEN PyBool(FALSE)
  ELSE PyInt(ParseInt(tok).val)

\* the table and column names of the statements below as JSON texts
NameKeys ==
  [name \in {tUsers, tPosts, tAccounts, tGhost, cId, cName, cUserId, cExtra}
     |-> JsonDumps(PyStr(name))]

\* a str dict key as written to the file, and read back
JsonKey(name) == IF name \in DOMAIN NameKeys THEN NameKeys[name] ELSE JsonDumps(PyStr(name))

KeyName(tok) == JsonLoads(tok).s

\* a dict with str keys as a JSON object: dumped holds the written value of each key
DumpObject(d, dumped) ==
  LET keys == [n \in DOMAIN d |-> JsonKey(n)]
  IN  [k \in Range(keys) |-> dumped[CHOOSE n \in DOMAIN d : keys[n] = k]]

\* a JSON object read back as a dict: loaded holds the value read for each key text
LoadObject(o, loaded) ==
  LET names == [k \in DOMAIN o |-> KeyName(k)]
  IN  [n \in Range(names) |-> loaded[CHOOSE k \in DOMAIN o : names[k] = n]]

DumpRow(row) == DumpObject(row, [c \in DOMAIN row |-> JsonDumps(row[c])])

LoadRow(o) == LoadObject(o, [k \in DOMAIN o |-> JsonLoads(o[k])])

DumpRows(rows) == [i \in 1..Len(rows) |-> DumpRow(rows[i])]

LoadRows(a) == [i \in 1..Len(a) |-> LoadRow(a[i])]

\* a schema keeps its column order in the file
DumpSchema(schema) ==
  [i \in 1..Len(schema) |-> <<JsonKey(schema[i][1]), JsonDumps(PyStr(schema[i][2]))>>]

LoadSchema(o) == [i \in 1..Len(o) |-> <<KeyName(o[i][1]), JsonLoads(o[i][2]).s>>]

DumpNames(names) == [i \in 1..Len(names) |-> JsonDumps(PyStr(names[i]))]

LoadNames(a) == [i \in 1..Len(a) |-> JsonLoads(a[i]).s]

EmptyDict == [k \in {} |-> <<>>]

EmptyDoc ==
  [tables |-> EmptyDict, schemas |-> EmptyDict, primary_keys |-> EmptyDict,
   unique_columns |-> EmptyDict]

\* the document save_to_file writes for the given engine state
SaveToFile(t, s, pk, u) ==
  [state |-> "json",
   doc   |-> [tables         |-> DumpObject(t, [n \in DOMAIN t |-> DumpRows(t[n])]),
              schemas        |-> DumpObject(s, [n \in DOMAIN s |-> DumpSchema(s[n])]),
              primary_keys   |-> DumpObject(pk, [n \in DOMAIN pk |-> JsonDumps(pk[n])]),
              unique_columns |-> DumpObject(u, [n \in DOMAIN u |-> DumpNames(u[n])])]]

\* a load that leaves a table in the engine whatever the file holds: must be
\* told from LoadFromFile
LoadFromFileLeavesTable(f) ==
  [tables |-> (tGhost :> <<>>), schemas |-> EmptyDict, primary_keys |-> EmptyDict,
   unique_columns |-> EmptyDict]

\* the four dicts load_from_file leaves in the engine: empty ones when the
\* file is absent or does not parse
LoadFromFile(f) ==
  IF f.state # "json" THEN EmptyDoc
  ELSE [tables         |-> LoadObject(f.doc.tables,
                                       [k \in DOMAIN f.doc.tables |-> LoadRows(f.doc.tables[k])]),
        schemas        |-> LoadObject(f.doc.schemas,
                                       [k \in DOMAIN f.doc.schemas |->
                                          LoadSchema(f.doc.schemas[k])]),
        primary_keys   |-> LoadObject(f.doc.primary_keys,
                                       [k \in DOMAIN f.doc.primary_keys |->
                                          JsonLoads(f.doc.primary_keys[k])]),
        unique_columns |-> LoadObject(f.doc.unique_columns,
                                       [k \in DOMAIN f.doc.unique_columns |->
                                          LoadNames(f.doc.unique_columns[k])])]

(***************************************************************************)
(* The parses of the statements explored, each computed once               *)
(***************************************************************************)
CreateParses ==
  [sql \in Range(CreateStmts) \cup Range(InlineCreateStmts) |-> ParseCreateTable(sql)]

InsertParses ==
  [sql \in Range(InsertStmts) \cup Range(MoreInsertStmts) \cup Range(SelectInsertStmts)
            \cup {s \in Range(LiteralStmts) \cup Range(ClauseStmts) :
                    StartsWith(s, kw.InsertInto)}
     |-> ParseInsert(sql)]

UpdateParses == [sql \in Range(UpdateStmts) |-> ParseUpdate(sql)]

DeleteParses == [sql \in Range(DeleteStmts) |-> ParseDelete(sql)]

SelectParses ==
  [sql \in Range(JoinStmts) \cup Range(SelectStmts)
            \cup {s \in Range(LiteralStmts) \cup Range(ClauseStmts) : StartsWith(s, kw.Select)}
     |-> ParseSelectStatement(sql)]

\* _parse_create_table(sql)
CreateParse(sql) ==
  IF sql \in DOMAIN CreateParses THEN CreateParses[sql] ELSE ParseCreateTable(sql)

\* _parse_insert(sql)
InsertParse(sql) == IF sql \in DOMAIN InsertParses THEN InsertParses[sql] ELSE ParseInsert(sql)

\* the parse _update does
UpdateParse(sql) == IF sql \in DOMAIN UpdateParses THEN UpdateParses[sql] ELSE ParseUpdate(sql)

\* the parse _delete does
DeleteParse(sql) == IF sql \in DOMAIN DeleteParses THEN DeleteParses[sql] ELSE ParseDelete(sql)

\* the parse _select does
SelectParse(sql) ==
  IF sql \in DOMAIN SelectParses THEN SelectParses[sql] ELSE ParseSelectStatement(sql)

(***************************************************************************)
(* The engine                                                              *)
(***************************************************************************)
\* d[k] = v on a dict kept as a function
Put(d, k, v) == [x \in DOMAIN d \cup {k} |-> IF x = k THEN v ELSE d[x]]

\* the last call: the operation, the statement text (empty for insert_row and
\* for a load), the table it named, the error it raised ("none" when it
\* returned), the row it built and the rows it returned
Outcome(op, sql, table, err, row, rows) ==
  [op |-> op, sql |-> sql, table |-> table, err |-> err, row |-> row, rows |-> rows]

\* a call that raises before changing anything
Raise(op, sql, table, err, row) ==
  /\ result' = Outcome(op, sql, table, err, row, <<>>)
  /\ UNCHANGED <<tables, schemas, primary_keys, unique_columns, indexes, file>>

EmptyIndex == [v \in {} |-> 0]

\* a table left without index maps: CREATE TABLE must tell it from NewIndexes
NoIndexes(primary_key, unique_cols) == [c \in {} |-> EmptyIndex]

\* the empty index maps of a table: one for a truthy primary key, one per unique column
NewIndexes(primary_key, unique_cols) ==
  [c \in (IF Truthy(primary_key) THEN {primary_key.s} ELSE {}) \cup Range(unique_cols)
     |-> EmptyIndex]

\* _create_table
CreateTable(sql) ==
  \E p \in {CreateParse(sql)} :
    IF p.table_name \in DOMAIN tables
    THEN Raise("create", sql, p.table_name, "DuplicateTable", EmptyRow)
    ELSE
      /\ tables' = Put(tables, p.table_name, <<>>)
      /\ schemas' = Put(schemas, p.table_name, p.schema)
      /\ primary_keys' = Put(primary_keys, p.table_name, p.primary_key)
      /\ unique_columns' = Put(unique_columns, p.table_name, p.unique_columns)
      /\ indexes' = Put(indexes, p.table_name, NewIndexes(p.primary_key, p.unique_columns))
      /\ file' = SaveToFile(tables', schemas', primary_keys', unique_columns')
      /\ result' = Outcome("create", sql, p.table_name, "none", EmptyRow, <<>>)

\* primary_keys.get(table_name)
PrimaryKeyOf(table_name) ==
  IF table_name \in DOMAIN primary_keys THEN primary_keys[table_name] ELSE None

\* unique_columns.get(table_name, [])
UniqueColumnsOf(table_name) ==
  IF table_name \in DOMAIN unique_columns THEN unique_columns[table_name] ELSE <<>>

\* an insert that scans nothing for the key: must be told from PrimaryKeyViolated
PrimaryKeyScanSkipped(table_name, row) == FALSE

\* a key check that trusts the index map instead of scanning the rows: must be
\* told from PrimaryKeyViolated once the maps are empty
PrimaryKeyInIndex(table_name, row) ==
  /\ Truthy(PrimaryKeyOf(table_name))
  /\ PrimaryKeyOf(table_name).s \in DOMAIN row
  /\ table_name \in DOMAIN indexes
  /\ PrimaryKeyOf(table_name).s \in DOMAIN indexes[table_name]
  /\ \E k \in DOMAIN indexes[table_name][PrimaryKeyOf(table_name).s] :
       PyEq(k, row[PrimaryKeyOf(table_name).s])

\* the primary-key scan: the row carries the key and an existing row equals it
PrimaryKeyViolated(table_name, row) ==
  /\ Truthy(PrimaryKeyOf(table_name))
  /\ PrimaryKeyOf(table_name).s \in DOMAIN row
  /\ \E i \in 1..Len(tables[table_name]) :
       PyEq(RowGet(tables[table_name][i], PrimaryKeyOf(table_name).s),
            row[PrimaryKeyOf(table_name).s])

\* an insert that scans nothing for unique values: must be told from UniqueViolated
UniqueScanSkipped(table_name, row) == FALSE

\* the unique scan, over the unique columns the row carries
UniqueViolated(table_name, row) ==
  \E c \in Range(UniqueColumnsOf(table_name)) :
    /\ c \in DOMAIN row
    /\ \E i \in 1..Len(tables[table_name]) : PyEq(RowGet(tables[table_name][i], c), row[c])

\* an index update that records the length of the table, not the position of
\* the row: must be told from IndexPut
IndexPutLength(index, value, position) ==
  [k \in DOMAIN index \cup {value} |-> IF k = value THEN position + 1 ELSE index[k]]

\* index[value] = position on a Python dict: an equal key (True == 1) is reused
IndexPut(index, value, position) ==
  IF \E k \in DOMAIN index : PyEq(k, value)
  THEN [k \in DOMAIN index |-> IF PyEq(k, value) THEN position ELSE index[k]]
  ELSE [k \in DOMAIN index \cup {value} |-> IF k = value THEN position ELSE index[k]]

RECURSIVE IndexColumns(_, _, _, _)
\* the index maps of one table after the row went in at position, for the
\* columns cols in turn
IndexColumns(idx, cols, row, position) ==
  IF cols = <<>> THEN idx
  ELSE IF Head(cols) \in DOMAIN row
  THEN IndexColumns(Put(idx, Head(cols),
                        IndexPut(IF Head(cols) \in DOMAIN idx THEN idx[Head(cols)]
                                 ELSE EmptyIndex,
                                 row[Head(cols)], position)),
                    Tail(cols), row, position)
  ELSE IndexColumns(idx, Tail(cols), row, position)

\* the index bookkeeping after the append: primary key first, then unique columns
IndexesAfterInsert(table_name, row, position) ==
  Put(indexes, table_name,
      IndexColumns(IF table_name \in DOMAIN indexes THEN indexes[table_name]
                   ELSE [c \in {} |-> EmptyIndex],
                   (IF Truthy(PrimaryKeyOf(table_name)) THEN <<PrimaryKeyOf(table_name).s>>
                    ELSE <<>>) \o UniqueColumnsOf(table_name),
                   row, position))

\* an insert that appends and saves before it validates: a raising call must be
\* told from StoreRow by what it leaves behind
StoreRowBeforeChecks(op, sql, table_name, row) ==
  /\ tables' = [tables EXCEPT ![table_name] = Append(@, row)]
  /\ indexes' = IndexesAfterInsert(table_name, row, Len(tables[table_name]))
  /\ file' = SaveToFile(tables', schemas, primary_keys, unique_columns)
  /\ result' = Outcome(op, sql, table_name,
                       IF PrimaryKeyViolated(table_name, row) THEN "PrimaryKey"
                       ELSE IF UniqueViolated(table_name, row) THEN "Unique" ELSE "none",
                       row, <<>>)
  /\ UNCHANGED <<schemas, primary_keys, unique_columns>>

\* validation, append, index update and save, as _insert and insert_row do them
StoreRow(op, sql, table_name, row) ==
  IF PrimaryKeyViolated(table_name, row) THEN Raise(op, sql, table_name, "PrimaryKey", row)
  ELSE IF UniqueViolated(table_name, row) THEN Raise(op, sql, table_name, "Unique", row)
  ELSE
    /\ tables' = [tables EXCEPT ![table_name] = Append(@, row)]
    /\ indexes' = IndexesAfterInsert(table_name, row, Len(tables[table_name]))
    /\ file' = SaveToFile(tables', schemas, primary_keys, unique_columns)
    /\ result' = Outcome(op, sql, table_name, "none", row, <<>>)
    /\ UNCHANGED <<schemas, primary_keys, unique_columns>>

\* _insert
Insert(sql) ==
  \E p \in {InsertParse(sql)} :
    IF p.table_name \notin DOMAIN tables
    THEN Raise("insert", sql, p.table_name, "UnknownTable", EmptyRow)
    ELSE \E row \in {InsertRowOf(p, schemas[p.table_name])} :
           StoreRow("insert", sql, p.table_name, row)

\* insert_row
InsertRow(call) ==
  /\ UNCHANGED validated
  /\ IF call.table_name \notin DOMAIN tables
     THEN Raise("insert_row", <<>>, call.table_name, "UnknownTable", EmptyRow)
     ELSE \E row \in {InsertRowRow(call.data, schemas[call.table_name])} :
            StoreRow("insert_row", <<>>, call.table_name, row)

\* an update loop that ignores WHERE: must be told from RowsUpdated
RowsUpdatedAll(rows, p, updates) == [i \in 1..Len(rows) |-> RowUpdate(rows[i], updates)]

\* the rows _update leaves in the table
RowsUpdated(rows, p, updates) ==
  [i \in 1..Len(rows) |->
     IF ~p.has_where \/ CompareWhere(rows[i], p.where)
     THEN RowUpdate(rows[i], updates) ELSE rows[i]]

\* an UPDATE that does not write the snapshot: must be told from Update
UpdateUnsaved(sql) ==
  \E p \in {UpdateParse(sql)} :
    IF p.table_name \notin DOMAIN tables
    THEN Raise("update", sql, p.table_name, "UnknownTable", EmptyRow)
    ELSE
      \E updates \in {UpdatesOf(p, IF p.table_name \in DOMAIN schemas
                                   THEN schemas[p.table_name] ELSE <<>>)} :
        /\ tables' = [tables EXCEPT ![p.table_name] = RowsUpdated(@, p, updates)]
        /\ result' = Outcome("update", sql, p.table_name, "none", updates, <<>>)
        /\ UNCHANGED <<schemas, primary_keys, unique_columns, indexes, file>>

\* an UPDATE that re-validates the primary key and refuses a repeated value:
\* must be told from Update
UpdateValidated(sql) ==
  \E p \in {UpdateParse(sql)} :
    IF p.table_name \notin DOMAIN tables
    THEN Raise("update", sql, p.table_name, "UnknownTable", EmptyRow)
    ELSE
      \E updates \in {UpdatesOf(p, IF p.table_name \in DOMAIN schemas
                                   THEN schemas[p.table_name] ELSE <<>>)} :
        \E rows \in {RowsUpdated(tables[p.table_name], p, updates)} :
          IF /\ Truthy(PrimaryKeyOf(p.table_name))
             /\ \E i, j \in 1..Len(rows) :
                  /\ i < j
                  /\ RowGet(rows[i], PrimaryKeyOf(p.table_name).s) # None
                  /\ PyEq(RowGet(rows[i], PrimaryKeyOf(p.table_name).s),
                          RowGet(rows[j], PrimaryKeyOf(p.table_name).s))
          THEN Raise("update", sql, p.table_name, "PrimaryKey", updates)
          ELSE
            /\ tables' = [tables EXCEPT ![p.table_name] = rows]
            /\ file' = SaveToFile(tables', schemas, primary_keys, unique_columns)
            /\ result' = Outcome("update", sql, p.table_name, "none", updates, <<>>)
            /\ UNCHANGED <<schemas, primary_keys, unique_columns, indexes>>

\* _update
Update(sql) ==
  \E p \in {UpdateParse(sql)} :
    IF p.table_name \notin DOMAIN tables
    THEN Raise("update", sql, p.table_name, "UnknownTable", EmptyRow)
    ELSE
      \E updates \in {UpdatesOf(p, IF p.table_name \in DOMAIN schemas
                                   THEN schemas[p.table_name] ELSE <<>>)} :
        /\ tables' = [tables EXCEPT ![p.table_name] = RowsUpdated(@, p, updates)]
        /\ file' = SaveToFile(tables', schemas, primary_keys, unique_columns)
        /\ result' = Outcome("update", sql, p.table_name, "none", updates, <<>>)
        /\ UNCHANGED <<schemas, primary_keys, unique_columns, indexes>>

\* a DELETE that keeps the rows it should remove: must be told from RowsKept
RowsSatisfying(rows, p) ==
  IF p.has_where THEN SelectSeq(rows, LAMBDA row : CompareWhere(row, p.where)) ELSE rows

\* the rows _delete keeps
RowsKept(rows, p) ==
  IF p.has_where THEN SelectSeq(rows, LAMBDA row : ~CompareWhere(row, p.where)) ELSE <<>>

\* a DELETE that empties the index maps of its table, as a rebuild from no
\* rows would: must be told from Delete
DeleteIndexesCleared(sql) ==
  \E p \in {DeleteParse(sql)} :
    IF p.table_name \notin DOMAIN tables
    THEN Raise("delete", sql, p.table_name, "UnknownTable", EmptyRow)
    ELSE
      /\ tables' = [tables EXCEPT ![p.table_name] = RowsKept(@, p)]
      /\ indexes' = Put(indexes, p.table_name,
                        NewIndexes(PrimaryKeyOf(p.table_name), UniqueColumnsOf(p.table_name)))
      /\ file' = SaveToFile(tables', schemas, primary_keys, unique_columns)
      /\ result' = Outcome("delete", sql, p.table_name, "none", EmptyRow, <<>>)
      /\ UNCHANGED <<schemas, primary_keys, unique_columns>>

\* _delete
Delete(sql) ==
  \E p \in {DeleteParse(sql)} :
    IF p.table_name \notin DOMAIN tables
    THEN Raise("delete", sql, p.table_name, "UnknownTable", EmptyRow)
    ELSE
      /\ tables' = [tables EXCEPT ![p.table_name] = RowsKept(@, p)]
      /\ file' = SaveToFile(tables', schemas, primary_keys, unique_columns)
      /\ result' = Outcome("delete", sql, p.table_name, "none", EmptyRow, <<>>)
      /\ UNCHANGED <<schemas, primary_keys, unique_columns, indexes>>

\* _select: the rows come back as copies, and nothing is stored
Select(sql) ==
  \E r \in {SelectRows(SelectParse(sql), tables, schemas)} :
    /\ result' = Outcome("select", sql, r.table, r.err, EmptyRow, r.rows)
    /\ UNCHANGED <<tables, schemas, primary_keys, unique_columns, indexes, file>>

\* the text part of execute: the stripped text and the statement kind its
\* leading keyword selects
Dispatch(text) ==
  LET Kind(sql, up) ==
        [sql  |-> sql,
         kind |-> IF StartsWith(up, kw.CreateTable) THEN "create"
                  ELSE IF StartsWith(up, kw.InsertInto) THEN "insert"
                  ELSE IF StartsWith(up, kw.Select) THEN "select"
                  ELSE IF StartsWith(up, kw.Update) THEN "update"
                  ELSE IF StartsWith(up, kw.Delete) THEN "delete"
                  ELSE "unknown"]
      Stripped(sql) == Kind(sql, Upper(sql))
  IN  Stripped(Strip(text))

Dispatches ==
  [text \in Range(CreateStmts) \cup Range(InlineCreateStmts) \cup Range(InsertStmts)
             \cup Range(MoreInsertStmts) \cup Range(SelectInsertStmts)
             \cup Range(UpdateStmts) \cup Range(DeleteStmts) \cup Range(JoinStmts)
             \cup Range(SelectStmts) \cup Range(OtherStmts) \cup Range(LiteralStmts)
             \cup Range(ClauseStmts) |-> Dispatch(text)]

\* execute(sql), run from its first line to its last with no other call between
Execute(text) ==
  \E d \in {IF text \in DOMAIN Dispatches THEN Dispatches[text] ELSE Dispatch(text)} :
    /\ UNCHANGED validated
    /\ CASE d.kind = "create" -> CreateTable(d.sql)
         [] d.kind = "insert" -> Insert(d.sql)
         [] d.kind = "select" -> Select(d.sql)
         [] d.kind = "update" -> Update(d.sql)
         [] d.kind = "delete" -> Delete(d.sql)
         [] OTHER             -> Raise("execute", d.sql, <<>>, "UnknownStatement", EmptyRow)

\* MicroSQL(db_name) on the same file: empty dicts, then load_from_file, which
\* gives every loaded table empty index maps
Restart ==
  \E loaded \in {LoadFromFile(file)} :
    /\ tables' = loaded.tables
    /\ schemas' = loaded.schemas
    /\ primary_keys' = loaded.primary_keys
    /\ unique_columns' = loaded.unique_columns
    /\ indexes' = [n \in DOMAIN loaded.tables |->
                     NewIndexes(IF n \in DOMAIN loaded.primary_keys
                                THEN loaded.primary_keys[n] ELSE None,
                                IF n \in DOMAIN loaded.unique_columns
                                THEN loaded.unique_columns[n] ELSE <<>>)]
    /\ result' = Outcome("load", <<>>, <<>>, "none", EmptyRow, <<>>)
    /\ UNCHANGED <<file, validated>>

\* the engine constructed with no snapshot file, or with one that does not parse
Init ==
  /\ tables = EmptyDict
  /\ schemas = EmptyDict
  /\ primary_keys = EmptyDict
  /\ unique_columns = EmptyDict
  /\ indexes = EmptyDict
  /\ file \in {[state |-> "absent", doc |-> EmptyDoc], [state |-> "corrupt", doc |-> EmptyDoc]}
  /\ result = Outcome("load", <<>>, <<>>, "none", EmptyRow, <<>>)
  /\ validated = <<>>

\* no table of the state holds more than n rows
WithinRows(n) == \A t \in DOMAIN tables : Len(tables[t]) <= n

DoCreate ==
  /\ \E sql \in Range(CreateStmts) : Execute(sql)

DoCreateInline ==
  /\ \E sql \in Range(InlineCreateStmts) : Execute(sql)

DoInsert == \E sql \in Range(InsertStmts) : Execute(sql) /\ WithinRows(MaxRows)'

DoInsertMore == \E sql \in Range(MoreInsertStmts) : Execute(sql) /\ WithinRows(MaxRows)'

DoInsertRow == \E call \in Range(InsertRowCalls) : InsertRow(call) /\ WithinRows(MaxRows)'

DoInsertRowMore ==
  \E call \in Range(MoreInsertRowCalls) : InsertRow(call) /\ WithinRows(MaxRows)'

DoSelectInsert ==
  \E sql \in Range(SelectInsertStmts) : Execute(sql) /\ WithinRows(MaxSelectRows)'

DoUpdate ==
  /\ \E sql \in Range(UpdateStmts) : Execute(sql)

DoDelete ==
  /\ \E sql \in Range(DeleteStmts) : Execute(sql)

DoJoin ==
  /\ \E sql \in Range(JoinStmts) : Execute(sql)

DoSelect ==
  /\ \E sql \in Range(SelectStmts) : Execute(sql)

DoOther ==
  /\ \E sql \in Range(OtherStmts) : Execute(sql)

DoLiteral == \E sql \in Range(LiteralStmts) : Execute(sql) /\ WithinRows(MaxRows)'

\* the engine through its mutating interface, restarts included
Next == DoCreate \/ DoInsert \/ DoInsertRow \/ DoUpdate \/ DoDelete \/ DoOther \/ Restart

Spec == Init /\ [][Next]_vars

\* the engine used through CREATE TABLE, INSERT and insert_row alone
NextInsertOnly ==
  DoCreate \/ DoCreateInline \/ DoInsert \/ DoInsertMore \/ DoInsertRow \/ DoInsertRowMore

SpecInsertOnly == Init /\ [][NextInsertOnly]_vars

\* tables filled by INSERT, read by SELECT and emptied by DELETE
NextSelect == DoCreate \/ DoSelectInsert \/ DoJoin \/ DoSelect \/ DoDelete

SpecSelect == Init /\ [][NextSelect]_vars

\* tables filled by INSERT, then read by WHERE and rewritten by SET literals
NextLiteral == DoCreate \/ DoInsert \/ DoLiteral

SpecLiteral == Init /\ [][NextLiteral]_vars

DoClause == \E sql \in Range(ClauseStmts) : Execute(sql) /\ WithinRows(MaxRows)'

\* the stored rows when SELECT hands out the stored rows themselves: the rows
\* of the table equal to the row assigned to take the value too; must be told
\* from StoredAfterAssign
StoredAfterAssignShared(k, col, value) ==
  [t \in DOMAIN tables |->
     [i \in 1..Len(tables[t]) |->
        IF t = result.table /\ tables[t][i] = result.rows[k]
        THEN RowUpdate(tables[t][i], (col :> value)) ELSE tables[t][i]]]

\* the stored rows after the caller assigned value to column col of the k-th
\* row the last SELECT returned: _select hands out row.copy() and the join
\* builds its merged rows anew, so no stored row is the row assigned to
StoredAfterAssign(k, col, value) == tables

\* the caller of execute assigns to a column of a row a SELECT returned, as
\* list_posts does with post['author']
CallerAssigns ==
  /\ result.op = "select"
  /\ result.err = "none"
  /\ \E k \in 1..Len(result.rows) :
       /\ result' = [result EXCEPT !.op = "assign",
                                   !.rows[k] = RowUpdate(@, (cExtra :> PyInt(0)))]
       /\ tables' = StoredAfterAssign(k, cExtra, PyInt(0))
  /\ UNCHANGED <<schemas, primary_keys, unique_columns, indexes, file, validated>>

\* tables filled by INSERT and read by SELECT statements of every clause, whose
\* caller writes into the rows it got
NextClause == DoCreate \/ DoInsert \/ DoClause \/ CallerAssigns

SpecClause == Init /\ [][NextClause]_vars

\* the first part of _insert, up to the end of the uniqueness scans: the call
\* has built and validated its row and has not appended it
BeginInsert ==
  /\ Len(validated) < MaxOverlap
  /\ \E sql \in Range(InsertStmts) :
       \E p \in {InsertParse(sql)} :
         /\ p.table_name \in DOMAIN tables
         /\ \E row \in {InsertRowOf(p, schemas[p.table_name])} :
              /\ ~PrimaryKeyViolated(p.table_name, row)
              /\ ~UniqueViolated(p.table_name, row)
              /\ validated' = Append(validated,
                                     [sql |-> sql, table_name |-> p.table_name, row |-> row])
  /\ UNCHANGED <<tables, schemas, primary_keys, unique_columns, indexes, file, result>>

\* a second half that scans the table again before it appends, as a call under
\* a lock would: must be told from FinishInsert
FinishInsertChecked ==
  \E i \in 1..Len(validated) :
    \E call \in {validated[i]} :
      /\ validated' = SubSeq(validated, 1, i - 1) \o SubSeq(validated, i + 1, Len(validated))
      /\ StoreRow("insert", call.sql, call.table_name, call.row)
      /\ WithinRows(MaxRows)'

\* the rest of _insert for a call that validated its row: append, index update
\* and save, whatever other calls stored in the meantime
FinishInsert ==
  \E i \in 1..Len(validated) :
    \E call \in {validated[i]} :
      /\ tables' = [tables EXCEPT ![call.table_name] = Append(@, call.row)]
      /\ indexes' = IndexesAfterInsert(call.table_name, call.row, Len(tables[call.table_name]))
      /\ file' = SaveToFile(tables', schemas, primary_keys, unique_columns)
      /\ result' = Outcome("insert", call.sql, call.table_name, "none", call.row, <<>>)
      /\ validated' = SubSeq(validated, 1, i - 1) \o SubSeq(validated, i + 1, Len(validated))
      /\ UNCHANGED <<schemas, primary_keys, unique_columns>>
      /\ WithinRows(MaxRows)'

\* INSERT calls of several threads on one engine: whole calls, and calls that
\* other calls run between the validation and the append of
NextOverlap == DoCreate \/ DoInsert \/ BeginInsert \/ FinishInsert

SpecOverlap == Init /\ [][NextOverlap]_vars

(***************************************************************************)
(* Properties                                                              *)
(*                                                                         *)
(* A property of one call is an action formula over the step the call      *)
(* takes: result' is the call, the unprimed variables the engine before it *)
(* and the primed ones the engine after it.                                *)
(***************************************************************************)

\* C1: on a table with a primary key, INSERT statements and insert_row calls
\* never leave two rows with an equal non-null key value; an insert whose key
\* value equals that of an existing row fails with the primary-key error and
\* leaves every row sequence as it was
PrimaryKeyEnforced ==
  /\ [](\A t \in DOMAIN tables :
          Truthy(PrimaryKeyOf(t)) =>
            \A i, j \in 1..Len(tables[t]) :
              (i # j /\ RowGet(tables[t][i], primary_keys[t].s) # None)
                => ~PyEq(RowGet(tables[t][i], primary_keys[t].s),
                         RowGet(tables[t][j], primary_keys[t].s)))
  /\ [][(/\ result'.op \in {"insert", "insert_row"}
         /\ result'.table \in DOMAIN tables
         /\ Truthy(PrimaryKeyOf(result'.table))
         /\ primary_keys[result'.table].s \in DOMAIN result'.row
         /\ \E i \in 1..Len(tables[result'.table]) :
              PyEq(RowGet(tables[result'.table][i], primary_keys[result'.table].s),
                   result'.row[primary_keys[result'.table].s]))
        => (result'.err = "PrimaryKey" /\ tables' = tables)]_vars

\* an INSERT of key 1 was refused for the key alone: the only row of users holds
\* key 1 under another name
PrimaryKeyRejected ==
  /\ result.op = "insert"
  /\ result.err = "PrimaryKey"
  /\ result.table = tUsers
  /\ Len(tables[tUsers]) = 1
  /\ PyEq(RowGet(result.row, cId), PyInt(1))
  /\ PyEq(RowGet(tables[tUsers][1], cId), PyInt(1))
  /\ RowGet(result.row, cName) # RowGet(tables[tUsers][1], cName)

\* C2: no two rows that carry a unique column hold an equal value on it; an
\* insert that would make such a pair leaves every row sequence as it was, and
\* fails with the unique error, or with the primary-key error when the row also
\* repeats the key of an existing row
UniqueEnforced ==
  /\ [](\A t \in DOMAIN tables : \A c \in Range(UniqueColumnsOf(t)) :
          \A i, j \in 1..Len(tables[t]) :
            (i # j /\ c \in DOMAIN tables[t][i] /\ c \in DOMAIN tables[t][j])
              => ~PyEq(tables[t][i][c], tables[t][j][c]))
  /\ [][(/\ result'.op \in {"insert", "insert_row"}
         /\ result'.table \in DOMAIN tables
         /\ \E c \in Range(UniqueColumnsOf(result'.table)) :
              /\ c \in DOMAIN result'.row
              /\ \E i \in 1..Len(tables[result'.table]) :
                   /\ c \in DOMAIN tables[result'.table][i]
                   /\ PyEq(tables[result'.table][i][c], result'.row[c]))
        => /\ tables' = tables
           /\ result'.err =
                IF /\ Truthy(PrimaryKeyOf(result'.table))
                   /\ primary_keys[result'.table].s \in DOMAIN result'.row
                   /\ \E i \in 1..Len(tables[result'.table]) :
                        PyEq(RowGet(tables[result'.table][i], primary_keys[result'.table].s),
                             result'.row[primary_keys[result'.table].s])
                THEN "PrimaryKey" ELSE "Unique"]_vars

\* an INSERT was refused for its name alone: its key is new to the table
UniqueRejected ==
  /\ result.op = "insert"
  /\ result.err = "Unique"
  /\ result.table = tUsers
  /\ Len(tables[tUsers]) = 1
  /\ RowGet(result.row, cName) = RowGet(tables[tUsers][1], cName)
  /\ ~PyEq(RowGet(result.row, cId), RowGet(tables[tUsers][1], cId))

\* C2 as stated: every insert that would make a pair of equal values on a
\* unique column fails with the unique error and appends nothing
UniqueErrorOnEveryClash ==
  [][(/\ result'.op \in {"insert", "insert_row"}
      /\ result'.table \in DOMAIN tables
      /\ \E c \in Range(UniqueColumnsOf(result'.table)) :
           /\ c \in DOMAIN result'.row
           /\ \E i \in 1..Len(tables[result'.table]) :
                /\ c \in DOMAIN tables[result'.table][i]
                /\ PyEq(tables[result'.table][i][c], result'.row[c]))
     => (tables' = tables /\ result'.err = "Unique")]_vars

\* C3: a table created with the inline definition id INT PRIMARY KEY has the
\* column id of type INT in its schema and id as its primary key, and never
\* holds two rows with an equal id
InlinePrimaryKeyRegistered ==
  tAccounts \in DOMAIN tables =>
    /\ DictHas(schemas[tAccounts], cId)
    /\ DictGet(schemas[tAccounts], cId) = kw.Int
    /\ primary_keys[tAccounts] = PyStr(cId)
    /\ \A i, j \in 1..Len(tables[tAccounts]) :
         i # j => ~PyEq(RowGet(tables[tAccounts][i], cId), RowGet(tables[tAccounts][j], cId))

\* C4: CREATE TABLE on a registered name fails with the duplicate-table error
\* and changes nothing; on a new name it adds the table with no rows and with
\* empty index maps for exactly its primary key and unique columns, and leaves
\* every other table as it was
CreateTableEffect ==
  [][(result'.op = "create") =>
       IF result'.table \in DOMAIN tables
       THEN /\ result'.err = "DuplicateTable"
            /\ UNCHANGED <<tables, schemas, primary_keys, unique_columns, indexes, file>>
       ELSE /\ result'.err = "none"
            /\ DOMAIN tables' = DOMAIN tables \cup {result'.table}
            /\ tables'[result'.table] = <<>>
            /\ DOMAIN indexes'[result'.table] =
                 (IF Truthy(primary_keys'[result'.table])
                  THEN {primary_keys'[result'.table].s} ELSE {})
                 \cup Range(unique_columns'[result'.table])
            /\ \A c \in DOMAIN indexes'[result'.table] :
                 DOMAIN indexes'[result'.table][c] = {}
            /\ \A t \in DOMAIN tables :
                 /\ tables'[t] = tables[t]
                 /\ schemas'[t] = schemas[t]
                 /\ primary_keys'[t] = primary_keys[t]
                 /\ unique_columns'[t] = unique_columns[t]
                 /\ t \in DOMAIN indexes => indexes'[t] = indexes[t]]_vars

\* CREATE TABLE users was refused while users held rows, beside a table posts
DuplicateCreateRefused ==
  /\ result.op = "create"
  /\ result.err = "DuplicateTable"
  /\ result.table = tUsers
  /\ Len(tables[tUsers]) = 2
  /\ tPosts \in DOMAIN tables

\* C5: the engine state written by save_to_file and read by load_from_file
\* is the same state: table names, schemas in column order, primary keys,
\* unique columns and rows in row order
SnapshotRoundTrip ==
  LoadFromFile(SaveToFile(tables, schemas, primary_keys, unique_columns))
    = [tables |-> tables, schemas |-> schemas, primary_keys |-> primary_keys,
       unique_columns |-> unique_columns]

\* an engine loaded from a snapshot holding a bool, a null, ints and texts, one
\* of them with a double quote and one made of a digit
LoadedMixedValues ==
  /\ result.op = "load"
  /\ file.state = "json"
  /\ tUsers \in DOMAIN tables
  /\ tPosts \in DOMAIN tables
  /\ \E i \in 1..Len(tables[tPosts]) :
       /\ RowGet(tables[tPosts][i], cId) = PyBool(TRUE)
       /\ RowGet(tables[tPosts][i], cUserId) = None
  /\ \E i \in 1..Len(tables[tUsers]) :
       /\ RowGet(tables[tUsers][i], cName).t = "str"
       /\ \E k \in 1..Len(RowGet(tables[tUsers][i], cName).s) :
            RowGet(tables[tUsers][i], cName).s[k] = "\""
  /\ \E i \in 1..Len(tables[tUsers]) :
       /\ RowGet(tables[tUsers][i], cName) = PyStr(<<"2">>)
       /\ RowGet(tables[tUsers][i], cId).t = "int"

\* C6: once a snapshot has been written, the file is the snapshot of the
\* engine's tables, schemas, primary keys and unique columns, and every
\* mutating call that returns leaves it so
SnapshotIsMemory ==
  /\ [](file.state = "json" =>
          file = SaveToFile(tables, schemas, primary_keys, unique_columns))
  /\ [][(/\ result'.op \in {"create", "insert", "insert_row", "update", "delete"}
         /\ result'.err = "none")
        => file' = SaveToFile(tables', schemas', primary_keys', unique_columns')]_vars

\* an UPDATE with WHERE returned, having changed the name of the row with key 2
\* in a table whose other row kept its name
UpdateSaved ==
  /\ result.op = "update"
  /\ result.err = "none"
  /\ result.sql = UpdateStmts[2]
  /\ Len(tables[tUsers]) = 2
  /\ \E i, j \in 1..2 :
       /\ PyEq(RowGet(tables[tUsers][i], cId), PyInt(2))
       /\ RowGet(tables[tUsers][i], cName) = PyStr(<<"2">>)
       /\ RowGet(tables[tUsers][j], cName) # PyStr(<<"2">>)

\* C7: the default (INNER) join of users and posts on users.id = posts.user_id
\* returns one merged row per pair of rows equal on these fields, in the order
\* of the users row and then of the posts row, each key written table.column,
\* and nothing else
InnerJoinPairs ==
  [][(/\ result'.op = "select"
      /\ result'.sql = JoinStmts[1]
      /\ tUsers \in DOMAIN tables
      /\ tPosts \in DOMAIN tables)
     => LET M == tables[tUsers]
            J == tables[tPosts]
            P == {p \in (1..Len(M)) \X (1..Len(J)) :
                    PyEq(RowGet(M[p[1]], cId), RowGet(J[p[2]], cUserId))}
            Rank(p) ==
              1 + Cardinality({q \in P : q[1] < p[1] \/ (q[1] = p[1] /\ q[2] < p[2])})
            rows == result'.rows
        IN  /\ result'.err = "none"
            /\ Len(rows) = Cardinality(P)
            /\ \A p \in P :
                 /\ DOMAIN rows[Rank(p)] =
                      {tUsers \o <<".">> \o c : c \in DOMAIN M[p[1]]}
                      \cup {tPosts \o <<".">> \o c : c \in DOMAIN J[p[2]]}
                 /\ \A c \in DOMAIN M[p[1]] :
                      rows[Rank(p)][tUsers \o <<".">> \o c] = M[p[1]][c]
                 /\ \A c \in DOMAIN J[p[2]] :
                      rows[Rank(p)][tPosts \o <<".">> \o c] = J[p[2]][c]]_vars

\* the join over users with keys 1 and 2 and one post of user 1 returned one row
InnerJoinOfOnePost ==
  /\ result.op = "select"
  /\ result.sql = JoinStmts[1]
  /\ result.err = "none"
  /\ Len(tables[tUsers]) = 2
  /\ PyEq(RowGet(tables[tUsers][1], cId), PyInt(1))
  /\ PyEq(RowGet(tables[tUsers][2], cId), PyInt(2))
  /\ Len(tables[tPosts]) = 1
  /\ PyEq(RowGet(tables[tPosts][1], cUserId), PyInt(1))
  /\ Len(result.rows) = 1

\* C8: in a LEFT join of users and posts, every users row equal to no posts
\* row on the joined fields comes back exactly once, with the columns of the
\* posts schema set to None, however many rows posts holds; so every users row
\* is in the result
LeftJoinUnmatchedOnce ==
  [][(/\ result'.op = "select"
      /\ result'.sql = JoinStmts[2]
      /\ tUsers \in DOMAIN tables
      /\ tPosts \in DOMAIN tables)
     => LET M == tables[tUsers]
            J == tables[tPosts]
            rows == result'.rows
            Unmatched(m) ==
              \A j \in 1..Len(J) : ~PyEq(RowGet(M[m], cId), RowGet(J[j], cUserId))
            Padded(row, m) ==
              /\ DOMAIN row =
                   {tUsers \o <<".">> \o c : c \in DOMAIN M[m]}
                   \cup {tPosts \o <<".">> \o schemas[tPosts][i][1] :
                           i \in 1..Len(schemas[tPosts])}
              /\ \A c \in DOMAIN M[m] : row[tUsers \o <<".">> \o c] = M[m][c]
              /\ \A i \in 1..Len(schemas[tPosts]) :
                   row[tPosts \o <<".">> \o schemas[tPosts][i][1]] = None
        IN  /\ result'.err = "none"
            /\ \A m \in 1..Len(M) :
                 Unmatched(m) =>
                   Cardinality({k \in 1..Len(rows) : Padded(rows[k], m)}) = 1
            /\ \A m \in 1..Len(M) :
                 \E k \in 1..Len(rows) :
                   \A c \in DOMAIN M[m] :
                     /\ (tUsers \o <<".">> \o c) \in DOMAIN rows[k]
                     /\ rows[k][tUsers \o <<".">> \o c] = M[m][c]]_vars

\* C9: a SELECT over posts with WHERE id > low, ORDER BY user_id and LIMIT n
\* returns the first n rows (all of them when fewer) of the rows with id > low
\* put in the order of a stable sort on user_id, descending under DESC, when
\* the sort keys of these rows can be ordered against one another, and in
\* their stored order when they cannot
SelectFilterSortLimit ==
  [][(/\ result'.op = "select"
      /\ result'.sql \in Range(SelectStmts)
      /\ tPosts \in DOMAIN tables)
     => LET desc == result'.sql = SelectStmts[1]
            n    == IF desc THEN 2 ELSE 1
            low  == IF desc THEN 10 ELSE 9
            F    == SelectSeq(tables[tPosts],
                              LAMBDA row : /\ cId \in DOMAIN row
                                           /\ IsInt(row[cId])
                                           /\ row[cId].i > low)
            k    == Len(F)
            Key(i) == IF cUserId \in DOMAIN F[i] THEN F[i][cUserId] ELSE PyStr(<<>>)
            Less(a, b) == IF desc THEN PyLess(b, a) ELSE PyLess(a, b)
            Sorted(p) ==
              \A i, j \in 1..k :
                i < j => /\ ~Less(Key(p[j]), Key(p[i]))
                         /\ ~Less(Key(p[i]), Key(p[j])) => p[i] < p[j]
            Ordered ==
              \A i, j \in 1..k : i # j => Orderable(Key(i), Key(j))
        IN  /\ result'.err = "none"
            /\ Len(result'.rows) = Min(n, k)
            /\ IF Ordered
               THEN \E p \in [1..k -> 1..k] :
                      /\ \A i, j \in 1..k : i # j => p[i] # p[j]
                      /\ Sorted(p)
                      /\ \A i \in 1..Min(n, k) : result'.rows[i] = F[p[i]]
               ELSE \A i \in 1..Min(n, k) : result'.rows[i] = F[i]]_vars

\* the DESC statement over the posts (10, 1), (11, 1), (12, 2): the first is
\* filtered out and the other two come back in reverse
SelectReordered ==
  /\ result.op = "select"
  /\ result.sql = SelectStmts[1]
  /\ result.err = "none"
  /\ Len(tables[tPosts]) = 3
  /\ tables[tPosts][1] = (cId :> PyInt(10) @@ cUserId :> PyInt(1))
  /\ tables[tPosts][2] = (cId :> PyInt(11) @@ cUserId :> PyInt(1))
  /\ tables[tPosts][3] = (cId :> PyInt(12) @@ cUserId :> PyInt(2))
  /\ result.rows = <<tables[tPosts][3], tables[tPosts][2]>>

\* C9 as stated: the rows returned are always the first n of the filtered rows
\* in the order of a stable sort on user_id; keys that cannot be ordered
\* against one another count as equal
SelectAlwaysSorted ==
  [][(/\ result'.op = "select"
      /\ result'.sql \in Range(SelectStmts)
      /\ tPosts \in DOMAIN tables)
     => LET desc == result'.sql = SelectStmts[1]
            n    == IF desc THEN 2 ELSE 1
            low  == IF desc THEN 10 ELSE 9
            F    == SelectSeq(tables[tPosts],
                              LAMBDA row : /\ cId \in DOMAIN row
                                           /\ IsInt(row[cId])
                                           /\ row[cId].i > low)
            k    == Len(F)
            Key(i) == IF cUserId \in DOMAIN F[i] THEN F[i][cUserId] ELSE PyStr(<<>>)
            Less(a, b) ==
              Orderable(a, b) /\ (IF desc THEN PyLess(b, a) ELSE PyLess(a, b))
            Sorted(p) ==
              \A i, j \in 1..k :
                i < j => /\ ~Less(Key(p[j]), Key(p[i]))
                         /\ ~Less(Key(p[i]), Key(p[j])) => p[i] < p[j]
        IN  /\ result'.err = "none"
            /\ Len(result'.rows) = Min(n, k)
            /\ \E p \in [1..k -> 1..k] :
                 /\ \A i, j \in 1..k : i # j => p[i] # p[j]
                 /\ Sorted(p)
                 /\ \A i \in 1..Min(n, k) : result'.rows[i] = F[p[i]]]_vars

\* C10: DELETE with WHERE leaves in the table the rows that do not satisfy the
\* predicate, each as it was and in the order they had; DELETE without WHERE
\* leaves it without rows; the table stays registered, and the schemas, the
\* primary keys, the unique columns and the other tables are unchanged
DeleteRemovesExactly ==
  [][(result'.op = "delete" /\ result'.table \in DOMAIN tables)
     => LET t == result'.table
            Satisfies(row) ==
              CASE result'.sql = DeleteStmts[1] -> PyEq(RowGet(row, cId), PyInt(2))
                [] result'.sql = DeleteStmts[2] -> TRUE
                [] result'.sql = DeleteStmts[3] -> PyEq(RowGet(row, cUserId), PyInt(2))
            K == {i \in 1..Len(tables[t]) : ~Satisfies(tables[t][i])}
            Rank(i) == 1 + Cardinality({x \in K : x < i})
        IN  /\ result'.err = "none"
            /\ DOMAIN tables' = DOMAIN tables
            /\ Len(tables'[t]) = Cardinality(K)
            /\ \A i \in K : tables'[t][Rank(i)] = tables[t][i]
            /\ \A o \in DOMAIN tables \ {t} : tables'[o] = tables[o]
            /\ UNCHANGED <<schemas, primary_keys, unique_columns>>]_vars

\* DELETE FROM users WHERE id = 2 returned and left the row with key 1 alone
\* in a table whose key index still remembers a row with key 2
DeletedOneOfTwo ==
  /\ result.op = "delete"
  /\ result.err = "none"
  /\ result.sql = DeleteStmts[1]
  /\ Len(tables[tUsers]) = 1
  /\ PyEq(RowGet(tables[tUsers][1], cId), PyInt(1))
  /\ cId \in DOMAIN indexes[tUsers]
  /\ PyInt(2) \in DOMAIN indexes[tUsers][cId]

\* C11: UPDATE users SET id = 1 gives every row of users the id 1, and UPDATE
\* users SET name = '2' WHERE id = 2 gives the name 2 to exactly the rows whose
\* id is 2; the other columns of these rows, the other rows, the number of rows
\* and their order, and every other table stay as they were, and the call
\* returns no rows
UpdateSetsExactly ==
  [][(/\ result'.op = "update"
      /\ result'.sql \in Range(UpdateStmts)
      /\ tUsers \in DOMAIN tables)
     => LET all == result'.sql = UpdateStmts[1]
            set == IF all THEN (cId :> PyInt(1)) ELSE (cName :> PyStr(<<"2">>))
            Sel(row) == all \/ (cId \in DOMAIN row /\ IsInt(row[cId]) /\ row[cId].i = 2)
            old == tables[tUsers]
            new == tables'[tUsers]
        IN  /\ result'.err = "none"
            /\ result'.rows = <<>>
            /\ DOMAIN tables' = DOMAIN tables
            /\ \A u \in DOMAIN tables \ {tUsers} : tables'[u] = tables[u]
            /\ Len(new) = Len(old)
            /\ \A i \in 1..Len(old) :
                 IF Sel(old[i])
                 THEN /\ DOMAIN new[i] = DOMAIN old[i] \cup DOMAIN set
                      /\ \A c \in DOMAIN set : new[i][c] = set[c]
                      /\ \A c \in DOMAIN old[i] \ DOMAIN set : new[i][c] = old[i][c]
                 ELSE new[i] = old[i]]_vars

\* the WHERE statement over two rows: the row of id 2 took the name, the row of
\* id 1 kept its own
UpdatedOneOfTwo ==
  /\ result.op = "update"
  /\ result.sql = UpdateStmts[2]
  /\ result.err = "none"
  /\ tUsers \in DOMAIN tables
  /\ Len(tables[tUsers]) = 2
  /\ \E i, j \in 1..2 :
       /\ tables[tUsers][i] = (cId :> PyInt(2) @@ cName :> PyStr(<<"2">>))
       /\ RowGet(tables[tUsers][j], cId) = PyInt(1)
       /\ RowGet(tables[tUsers][j], cName) # PyStr(<<"2">>)

\* the INSERT statements that name the columns and values of insert_row calls
InsertRowAsStmts ==
  << [call |-> MoreInsertRowCalls[2], sql |-> InsertStmts[1]],
     \* INSERT INTO users (id, extra) VALUES (3, 5)
     [call |-> MoreInsertRowCalls[3],
      sql  |-> <<"I", "N", "S", "E", "R", "T", " ", "I", "N", "T", "O", " ", "u", "s", "e",
                 "r", "s", " ", "(", "i", "d", ",", " ", "e", "x", "t", "r", "a", ")", " ",
                 "V", "A", "L", "U", "E", "S", " ", "(", "3", ",", " ", "5", ")">>] >>

\* C12 as stated: an insert_row call ends as the INSERT statement naming the
\* same columns and values would from the same state: the same error, or the
\* table extended by the row the statement builds
InsertRowAsInsert ==
  [][\A k \in DOMAIN InsertRowAsStmts :
       LET call == InsertRowAsStmts[k].call
           t    == call.table_name
       IN  (/\ result'.op = "insert_row"
            /\ result'.table = t
            /\ t \in DOMAIN tables
            /\ result'.row = InsertRowRow(call.data, schemas[t]))
           => LET row == InsertRowOf(ParseInsert(InsertRowAsStmts[k].sql), schemas[t])
                  err == IF PrimaryKeyViolated(t, row) THEN "PrimaryKey"
                         ELSE IF UniqueViolated(t, row) THEN "Unique" ELSE "none"
              IN  /\ result'.err = err
                  /\ err = "none" => tables' = [tables EXCEPT ![t] = Append(@, row)]]_vars

\* C13: a call that raises leaves the rows of every table, the schemas, the
\* primary keys, the unique columns, the index maps and the snapshot file as
\* they were before it
ErrorLeavesState ==
  [][result'.err # "none"
     => UNCHANGED <<tables, schemas, primary_keys, unique_columns, indexes, file>>]_vars

\* an INSERT refused for its name alone, after an UPDATE moved the key of the
\* row that holds the name
UniqueRefusedAfterUpdate ==
  /\ result.op = "insert"
  /\ result.err = "Unique"
  /\ tUsers \in DOMAIN tables
  /\ Len(tables[tUsers]) >= 1
  /\ file = SaveToFile(tables, schemas, primary_keys, unique_columns)

\* C14 as stated: the row INSERT wrote with the literals 1 and 'a' holds the
\* text a, and SELECT * FROM users WHERE name = 'a' returns it
QuotedTextFound ==
  [][(/\ result'.op = "select"
      /\ result'.sql = LiteralStmts[7]
      /\ tUsers \in DOMAIN tables)
     => \A i \in 1..Len(tables[tUsers]) :
          RowGet(tables[tUsers][i], cId) = PyInt(1)
            => /\ RowGet(tables[tUsers][i], cName) = PyStr(<<"a">>)
               /\ \E k \in 1..Len(result'.rows) : result'.rows[k] = tables[tUsers][i]]_vars

\* C15: over rows whose id is an int, or is missing, WHERE id = 1, WHERE id < 2
\* and WHERE id > 1 return, in stored order, exactly the rows whose id is an int
\* equal to 1, less than 2 and greater than 1
WhereComparesInts ==
  [][(/\ result'.op = "select"
      /\ result'.sql \in {LiteralStmts[1], LiteralStmts[2], LiteralStmts[3]}
      /\ tUsers \in DOMAIN tables)
     => LET Holds(n) == CASE result'.sql = LiteralStmts[1] -> n = 1
                          [] result'.sql = LiteralStmts[2] -> n < 2
                          [] result'.sql = LiteralStmts[3] -> n > 1
        IN  /\ result'.err = "none"
            /\ result'.rows =
                 SelectSeq(tables[tUsers],
                           LAMBDA row : /\ cId \in DOMAIN row
                                        /\ row[cId].t = "int"
                                        /\ Holds(row[cId].i))]_vars

\* WHERE id < 2 over the rows of ids 1 and 2: the first alone comes back
WhereLessOfTwo ==
  /\ result.op = "select"
  /\ result.sql = LiteralStmts[2]
  /\ result.err = "none"
  /\ tUsers \in DOMAIN tables
  /\ Len(tables[tUsers]) = 2
  /\ RowGet(tables[tUsers][1], cId) = PyInt(1)
  /\ RowGet(tables[tUsers][2], cId) = PyInt(2)
  /\ result.rows = <<tables[tUsers][1]>>

\* C16 as stated: WHERE id != 1, WHERE id <= 1 and WHERE id >= 2 return, in
\* stored order, exactly the rows whose id is an int different from 1, at most 1
\* and at least 2
WhereComparesIntsInclusive ==
  [][(/\ result'.op = "select"
      /\ result'.sql \in {LiteralStmts[4], LiteralStmts[5], LiteralStmts[6]}
      /\ tUsers \in DOMAIN tables)
     => LET Holds(n) == CASE result'.sql = LiteralStmts[4] -> n # 1
                          [] result'.sql = LiteralStmts[5] -> n <= 1
                          [] result'.sql = LiteralStmts[6] -> n >= 2
        IN  /\ result'.err = "none"
            /\ result'.rows =
                 SelectSeq(tables[tUsers],
                           LAMBDA row : /\ cId \in DOMAIN row
                                        /\ row[cId].t = "int"
                                        /\ Holds(row[cId].i))]_vars

\* no table with a primary key holds two rows with an equal non-null key value
NoRepeatedKey ==
  \A t \in DOMAIN tables :
    Truthy(PrimaryKeyOf(t)) =>
      \A i, j \in 1..Len(tables[t]) :
        (i # j /\ RowGet(tables[t][i], primary_keys[t].s) # None)
          => ~PyEq(RowGet(tables[t][i], primary_keys[t].s),
                   RowGet(tables[t][j], primary_keys[t].s))

\* C17: an UPDATE of an existing table raises nothing, whatever the rows it
\* leaves: UPDATE users SET id = 1 gives every row the key 1, so over two rows
\* or more it leaves a repeated key; and a step that ends with a repeated key,
\* from a state without one, is an UPDATE
UpdateSkipsValidation ==
  /\ [][(result'.op = "update" /\ result'.table \in DOMAIN tables)
        => /\ result'.err = "none"
           /\ (result'.sql = UpdateStmts[1] /\ Len(tables[result'.table]) >= 2)
                => ~NoRepeatedKey']_vars
  /\ [][(NoRepeatedKey /\ ~NoRepeatedKey') => result'.op = "update"]_vars

\* INSERT, INSERT, UPDATE: the two rows of users hold the key 1
RepeatedKeyAfterUpdate ==
  /\ result.op = "update"
  /\ result.sql = UpdateStmts[1]
  /\ result.err = "none"
  /\ tUsers \in DOMAIN tables
  /\ primary_keys[tUsers] = PyStr(cId)
  /\ Len(tables[tUsers]) = 2
  /\ tables[tUsers][1][cId] = PyInt(1)
  /\ tables[tUsers][2][cId] = PyInt(1)

\* C18 as stated: after an UPDATE without WHERE, every row holds, in each
\* assigned column of the schema, the value INSERT stores for the same literal
\* in the same column
UpdateLiteralAsInsert ==
  [][(/\ result'.op = "update"
      /\ result'.err = "none"
      /\ result'.table \in DOMAIN schemas
      /\ Len(tables[result'.table]) >= 1)
     => LET p == ParseUpdate(result'.sql)
            t == result'.table
        IN  ~p.has_where =>
              \A i \in 1..Len(p.assignments) :
                DictHas(schemas[t], p.assignments[i][1])
                  => \A k \in 1..Len(tables'[t]) :
                       tables'[t][k][p.assignments[i][1]]
                         = ConvertValue(p.assignments[i][2], p.assignments[i][1], schemas[t])]_vars

\* C19 as stated: an insert whose primary-key value is None is never refused
\* with the primary-key error
NullKeyNeverRefused ==
  [][(/\ result'.op \in {"insert", "insert_row"}
      /\ result'.table \in DOMAIN tables
      /\ Truthy(PrimaryKeyOf(result'.table))
      /\ RowGet(result'.row, primary_keys[result'.table].s) = None)
     => result'.err # "PrimaryKey"]_vars

\* C20: on a table whose index maps are all empty, an insert whose key value
\* equals that of a stored row fails with the primary-key error, one whose
\* unique value alone equals that of a stored row fails with the unique error,
\* and both leave the rows of every table as they were
EmptyIndexStillEnforced ==
  [][(/\ result'.op \in {"insert", "insert_row"}
      /\ result'.table \in DOMAIN tables
      /\ result'.table \in DOMAIN indexes
      /\ \A c \in DOMAIN indexes[result'.table] : indexes[result'.table][c] = EmptyIndex)
     => LET t == result'.table
            row == result'.row
            Held(c) == /\ c \in DOMAIN row
                       /\ \E i \in 1..Len(tables[t]) : PyEq(RowGet(tables[t][i], c), row[c])
            key == Truthy(PrimaryKeyOf(t)) /\ Held(primary_keys[t].s)
            unique == \E c \in Range(UniqueColumnsOf(t)) : Held(c)
        IN  /\ key => (result'.err = "PrimaryKey" /\ tables' = tables)
            /\ (~key /\ unique) => (result'.err = "Unique" /\ tables' = tables)]_vars

\* a loaded row of key 1 and empty index maps: the INSERT of key 1 was refused
LoadedKeyRefused ==
  /\ result.op = "insert"
  /\ result.err = "PrimaryKey"
  /\ tUsers \in DOMAIN tables
  /\ Len(tables[tUsers]) = 1
  /\ tables[tUsers][1][cId] = PyInt(1)
  /\ result.row[cId] = PyInt(1)
  /\ indexes[tUsers] = (cId :> EmptyIndex @@ cName :> EmptyIndex)
\* C21: a SELECT with WHERE over an existing table raises nothing: WHERE id,
\* which holds no operator, returns every row of users; WHERE user_id < 2 returns
\* the rows of posts whose user_id is an int below 2, a row whose user_id is None
\* or missing being left out; and WHERE extra > 0 leaves out the rows without
\* the column extra
WhereNeverRaises ==
  [][(/\ result'.op = "select"
      /\ result'.sql \in {ClauseStmts[1], ClauseStmts[2], ClauseStmts[3]}
      /\ result'.table \in DOMAIN tables)
     => /\ result'.err = "none"
        /\ result'.sql = ClauseStmts[1] => result'.rows = tables[tUsers]
        /\ result'.sql = ClauseStmts[2] =>
             result'.rows = SelectSeq(tables[tPosts],
                                      LAMBDA row : /\ cUserId \in DOMAIN row
                                                   /\ IsInt(row[cUserId])
                                                   /\ row[cUserId].i < 2)
        /\ result'.sql = ClauseStmts[3] =>
             result'.rows = SelectSeq(tables[tUsers],
                                      LAMBDA row : /\ cExtra \in DOMAIN row
                                                   /\ row[cExtra] = PyStr(<<"5">>))]_vars

\* WHERE user_id < 2 over a row of user_id 1 and a row of user_id None: the
\* first alone came back, and no error
WhereLeftOutNone ==
  /\ result.op = "select"
  /\ result.sql = ClauseStmts[2]
  /\ result.err = "none"
  /\ tPosts \in DOMAIN tables
  /\ Len(tables[tPosts]) = 2
  /\ \E i, j \in 1..2 :
       /\ RowGet(tables[tPosts][i], cUserId) = PyInt(1)
       /\ cUserId \in DOMAIN tables[tPosts][j]
       /\ tables[tPosts][j][cUserId] = None
       /\ result.rows = <<tables[tPosts][i]>>

\* C22: SELECT * FROM users ORDER BY name and SELECT * FROM posts ORDER BY
\* user_id raise nothing and return the rows of the table, each once; a row
\* without the column has the empty text as its key; when every two keys can be
\* ordered the rows come back in ascending key order, and otherwise they come
\* back in stored order
OrderByNeverRaises ==
  [][(/\ result'.op = "select"
      /\ result'.sql \in {ClauseStmts[4], ClauseStmts[5]}
      /\ result'.table \in DOMAIN tables)
     => LET col  == IF result'.sql = ClauseStmts[4] THEN cName ELSE cUserId
            rows == tables[result'.table]
            got  == result'.rows
            Key(row) == IF col \in DOMAIN row THEN row[col] ELSE PyStr(<<>>)
            comparable == \A i, j \in 1..Len(rows) :
                            i # j => Orderable(Key(rows[i]), Key(rows[j]))
        IN  /\ result'.err = "none"
            /\ Len(got) = Len(rows)
            /\ \E f \in Permutations(1..Len(rows)) : \A i \in 1..Len(rows) : got[i] = rows[f[i]]
            /\ comparable => \A i \in 1..Len(got) - 1 : ~PyLess(Key(got[i + 1]), Key(got[i]))
            /\ ~comparable => got = rows]_vars

\* ORDER BY name over a row with a name and, behind it, a row without one: the
\* row without a name came back first
OrderedMissingFirst ==
  /\ result.op = "select"
  /\ result.sql = ClauseStmts[4]
  /\ result.err = "none"
  /\ tUsers \in DOMAIN tables
  /\ Len(tables[tUsers]) = 2
  /\ cName \in DOMAIN tables[tUsers][1]
  /\ cName \notin DOMAIN tables[tUsers][2]
  /\ result.rows = <<tables[tUsers][2], tables[tUsers][1]>>

\* C23 as stated: over the pairs of a users row and a posts row whose id and
\* user_id are equal, taken users row by users row, the JOIN followed by WHERE
\* posts.id = 10 returns the merged rows whose posts.id is 10, and the JOIN
\* followed by LIMIT 1 returns the first merged row
JoinAppliesClauses ==
  [][(/\ result'.op = "select"
      /\ result'.sql \in {ClauseStmts[6], ClauseStmts[7]}
      /\ tUsers \in DOMAIN tables
      /\ tPosts \in DOMAIN tables)
     => LET users == tables[tUsers]
            posts == tables[tPosts]
            pairs == Concat([m \in 1..Len(users) |->
                       Concat([j \in 1..Len(posts) |->
                         IF PyEq(RowGet(users[m], cId), RowGet(posts[j], cUserId))
                         THEN <<Merged(tUsers, users[m], tPosts, posts[j])>>
                         ELSE <<>>])])
        IN  /\ result'.err = "none"
            /\ result'.sql = ClauseStmts[6] =>
                 result'.rows = SelectSeq(pairs, LAMBDA row : row[tPosts \o <<".">> \o cId] = PyInt(10))
            /\ result'.sql = ClauseStmts[7] =>
                 result'.rows = SubSeq(pairs, 1, Min(1, Len(pairs)))]_vars

\* C24 as stated: the JOIN written ON posts.user_id = users.id returns what the
\* JOIN written ON users.id = posts.user_id returns: the merged rows of the
\* pairs of a users row and a posts row whose id and user_id are equal, taken
\* users row by users row
JoinSidesSwapped ==
  [][(/\ result'.op = "select"
      /\ result'.sql = ClauseStmts[8]
      /\ tUsers \in DOMAIN tables
      /\ tPosts \in DOMAIN tables)
     => /\ result'.err = "none"
        /\ result'.rows = SelectRows(SelectParse(JoinStmts[1]), tables, schemas).rows
        /\ \A m \in 1..Len(tables[tUsers]) : \A j \in 1..Len(tables[tPosts]) :
             PyEq(RowGet(tables[tUsers][m], cId), RowGet(tables[tPosts][j], cUserId))
               => \E k \in 1..Len(result'.rows) :
                    result'.rows[k] = Merged(tUsers, tables[tUsers][m], tPosts, tables[tPosts][j])]_vars

\* C25: an INSERT that validated its row appends it whatever other calls
\* stored between its validation and its append, so two INSERTs of one key
\* that overlap leave the key twice; and a repeated key appears only at the
\* append of such a call: a call run from validation to save with no other call
\* between never leaves one
OverlapRepeatsKey ==
  /\ [][Len(validated') < Len(validated)
        => \E i \in 1..Len(validated) :
             /\ result' = Outcome("insert", validated[i].sql, validated[i].table_name, "none",
                                  validated[i].row, <<>>)
             /\ tables' = [tables EXCEPT ![validated[i].table_name] = Append(@, validated[i].row)]]_vars
  /\ [][(NoRepeatedKey /\ ~NoRepeatedKey') => Len(validated') < Len(validated)]_vars
  /\ [][(validated = <<>> /\ NoRepeatedKey) => NoRepeatedKey']_vars

\* two INSERTs of key 1 validated on the empty table and then appended: users
\* holds the key twice, and no call is in flight
KeyTwiceAfterOverlap ==
  /\ validated = <<>>
  /\ result.op = "insert"
  /\ result.err = "none"
  /\ tUsers \in DOMAIN tables
  /\ primary_keys[tUsers] = PyStr(cId)
  /\ Len(tables[tUsers]) = 2
  /\ tables[tUsers][1][cId] = PyInt(1)
  /\ tables[tUsers][2][cId] = PyInt(1)

\* C26: constructing the engine raises nothing; as long as the snapshot file
\* is absent or does not parse, the engine constructed on it holds no table, no
\* schema, no primary key and no unique column; and the first call that then
\* changes the engine leaves in the file the snapshot of the state it made
LoadNeverFails ==
  /\ [][result'.op = "load"
        => /\ result'.err = "none"
           /\ file.state # "json"
                => /\ tables' = EmptyDict
                   /\ schemas' = EmptyDict
                   /\ primary_keys' = EmptyDict
                   /\ unique_columns' = EmptyDict
                   /\ indexes' = EmptyDict]_vars
  /\ [](file.state # "json"
         => /\ tables = EmptyDict
            /\ schemas = EmptyDict
            /\ primary_keys = EmptyDict
            /\ unique_columns = EmptyDict)
  /\ [][(/\ file.state # "json"
         /\ result'.err = "none"
         /\ result'.op \in {"create", "insert", "insert_row", "update", "delete"})
        => /\ file'.state = "json"
           /\ file' = SaveToFile(tables', schemas', primary_keys', unique_columns')]_vars

\* the engine built on a file that does not parse refused a statement and then
\* created users: the file now holds the snapshot with that one table
UnparsedFileOverwritten ==
  /\ result.op = "create"
  /\ result.err = "none"
  /\ DOMAIN tables = {tUsers}
  /\ tables[tUsers] = <<>>
  /\ file.state = "json"
  /\ DOMAIN LoadFromFile(file).tables = {tUsers}

RowsWithinSchema ==
  \A t \in DOMAIN tables :
    \A i \in 1..Len(tables[t]) :
      DOMAIN tables[t][i] \subseteq {schemas[t][k][1] : k \in 1..Len(schemas[t])}

\* C29 as stated: SELECT * FROM users LIMIT n, for n = 0, -1 and 1, returns the
\* first min(max(n, 0), k) of the k rows of users, and LIMIT x raises the error
\* of a count that is no integer
LimitTruncates ==
  [][(/\ result'.op = "select"
      /\ result'.sql \in {ClauseStmts[9], ClauseStmts[10], ClauseStmts[11], ClauseStmts[12]}
      /\ tUsers \in DOMAIN tables)
     => LET n == CASE result'.sql = ClauseStmts[9]  -> 0
                   [] result'.sql = ClauseStmts[10] -> -1
                   [] OTHER                         -> 1
        IN  IF result'.sql = ClauseStmts[11] THEN result'.err = "ValueError"
            ELSE /\ result'.err = "none"
                 /\ Len(result'.rows) <= Max(n, 0)
                 /\ result'.rows = SubSeq(tables[tUsers], 1, Min(Max(n, 0), Len(tables[tUsers])))]_vars

IndexesNotRefreshed ==
  [][result'.op \in {"update", "delete"} => indexes' = indexes]_vars

\* DELETE removed a row of users: an entry of the key map names a position the
\* table no longer has
IndexEntryPastEnd ==
  /\ result.op = "delete"
  /\ result.err = "none"
  /\ tUsers \in DOMAIN tables
  /\ tUsers \in DOMAIN indexes
  /\ cId \in DOMAIN indexes[tUsers]
  /\ \E v \in DOMAIN indexes[tUsers][cId] : indexes[tUsers][cId][v] >= Len(tables[tUsers])

====
